---- MODULE Spec2Model ----
EXTENDS Integers, Sequences, FiniteSets, TLC

(***************************************************************************)
(* A model of the agent-builder orchestration layer: the process-wide      *)
(* AgentRegistry, the SupervisorWorkflow graph (route_request -> agent     *)
(* node -> finalize) and the execute methods of the agents.                *)
(***************************************************************************)

VARIABLES
    _instance,      \* AgentRegistry._instance: FALSE is None, TRUE the singleton
    _agents,        \* AgentRegistry._agents: an insertion-ordered dict, kept as
                    \* the sequence of its items [key, agent]
    heap,           \* every agent object constructed so far, by object id
    app,            \* SupervisorWorkflow.app: None, or the compiled graph
    pc,             \* where the supervisor's caller or graph stands
    state,          \* the AgentState of the request the graph is running
    result,         \* what the last invoke returned or raised
    ex,             \* the frame of the agent.execute call in progress
    lastCall,       \* history: the last call on the registry and how it ended
    log,            \* history: the register calls that constructed an agent
    reset,          \* history: clear was called, or __new__ dropped entries
    route,          \* the routing decision waiting for its node: what it saw and chose
    calls,          \* history: the model, tool and agent invocations of the
                    \* request (or of the direct execute call) in progress
    waiting,        \* the request of the other worker thread, while this one
                    \* runs: its pc, state, result, ex, route, calls and steps
    steps           \* the updates the nodes of the graph have emitted for the
                    \* request in progress, in order, as [node, update]: what
                    \* app.stream yields and app.invoke folds into its result

registryVars == <<_instance, _agents, lastCall, log, reset>>

supervisorVars == <<app, pc, state, result, route>>

threadVars == <<waiting>>

streamVars == <<steps>>

vars == <<_instance, _agents, heap, app, pc, state, result, ex, lastCall, log,
          reset, route, calls, waiting, steps>>

\* --------------------------------------------------------------- bounds

\* The number of agent objects one run constructs.
MaxInst == 3

\* The number of agent classes the program registers before it builds the
\* graph.
MaxRegistered == 2

\* ------------------------------------------------ Python dict, as a list

\* Python's None where a text is expected.
None == "None"

\* Python's None where an agent object is expected: object ids start at 1.
NoAgent == 0

RECURSIVE dict_index(_, _)
\* Position of key k in dict d, 0 when absent.
dict_index(d, k) ==
    IF d = <<>> THEN 0
    ELSE IF d[Len(d)].key = k THEN Len(d)
    ELSE dict_index(SubSeq(d, 1, Len(d) - 1), k)

dict_contains(d, k) == dict_index(d, k) # 0

\* d.get(k): the value, or None.
dict_get(d, k) ==
    IF dict_contains(d, k) THEN d[dict_index(d, k)].agent ELSE NoAgent

\* d[k] = v: a new key goes last, an existing key keeps its place.
dict_setitem(d, k, v) ==
    IF dict_contains(d, k)
    THEN [d EXCEPT ![dict_index(d, k)].agent = v]
    ELSE Append(d, [key |-> k, agent |-> v])

dict_keys(d) == [i \in 1..Len(d) |-> d[i].key]

dict_values(d) == [i \in 1..Len(d) |-> d[i].agent]

\* ---------------------------------------------------------- agent classes

FileOperationsAgent_name == "file_operations"

ResearchAgent_name == "research"

WeatherAgent_name == "weather"

MathAgent_name == "math"

\* The classes the repository decorates with @AgentRegistry.register.
AgentClasses == {"FileOperationsAgent", "ResearchAgent", "WeatherAgent", "MathAgent"}

\* A class that does not inherit from BaseAgent.
OtherClasses == {"object"}

\* The name property of an instance of class cls.
name(cls) ==
    CASE cls = "FileOperationsAgent" -> FileOperationsAgent_name
      [] cls = "ResearchAgent" -> ResearchAgent_name
      [] cls = "WeatherAgent" -> WeatherAgent_name
      [] cls = "MathAgent" -> MathAgent_name

AgentNames == {name(c) : c \in AgentClasses}

\* The name of agent object a (an id of the heap).
agent_name(a) == name(heap[a].cls)

\* agent_class(): the object the constructor leaves on the heap. Every class
\* starts with agent_executor = None (the weather agent has no such field
\* and never sets it); the weather agent also holds what it loaded from the
\* tool provider (see WeatherAgent_init). An empty _capabilities_cache
\* stands for None: the code only tests its truth.
new_agent(cls) ==
    [cls |-> cls, agent_executor |-> None, available_tools |-> <<>>,
     _capabilities_cache |-> <<>>, connected |-> FALSE]

\* ------------------------------------------------------------- strings

\* The request texts of the model: the empty request, the examples of
\* main.py and add_custom_agent.py, and a text that ties two agents.
UserInputs ==
    { "",
      "list files in current directory",
      "Convert 100 celsius to fahrenheit",
      "Find the file" }

\* The chat message of the requests of the HTTP server.
ThreadInputs == {"Convert 100 celsius to fahrenheit"}

\* str.lower() on the request texts.
str_lower(s) ==
    CASE s = "Convert 100 celsius to fahrenheit" -> "convert 100 celsius to fahrenheit"
      [] s = "Find the file" -> "find the file"
      [] OTHER -> s

\* Python's substring test (keyword in text) on the lower-cased request
\* texts: the keywords of the agents' lists that occur in text.
keywords_in(text) ==
    CASE text = "list files in current directory" -> {"file", "list", "directory"}
      [] text = "convert 100 celsius to fahrenheit" -> {"celsius", "fahrenheit", "convert"}
      [] text = "find the file" -> {"file", "find"}
      [] OTHER -> {}

str_contains(text, keyword) == keyword \in keywords_in(text)

\* A model answer is a sequence of characters.
WhitespaceChars == {" ", "\n", "\t"}

UpperChars == <<"A", "B", "C", "D", "E", "F", "G", "H", "I", "J", "K", "L", "M",
                "N", "O", "P", "Q", "R", "S", "T", "U", "V", "W", "X", "Y", "Z">>

LowerChars == <<"a", "b", "c", "d", "e", "f", "g", "h", "i", "j", "k", "l", "m",
                "n", "o", "p", "q", "r", "s", "t", "u", "v", "w", "x", "y", "z">>

char_lower(c) ==
    IF \E i \in 1..26 : UpperChars[i] = c
    THEN LowerChars[CHOOSE i \in 1..26 : UpperChars[i] = c]
    ELSE c

\* str.lower() on a sequence of characters.
chars_lower(s) == [i \in 1..Len(s) |-> char_lower(s[i])]

RECURSIVE chars_lstrip(_)
chars_lstrip(s) ==
    IF s # <<>> /\ s[1] \in WhitespaceChars THEN chars_lstrip(Tail(s)) ELSE s

RECURSIVE chars_rstrip(_)
chars_rstrip(s) ==
    IF s # <<>> /\ s[Len(s)] \in WhitespaceChars
    THEN chars_rstrip(SubSeq(s, 1, Len(s) - 1))
    ELSE s

\* str.strip() on a sequence of characters.
chars_strip(s) == chars_rstrip(chars_lstrip(s))

\* The characters of the agent names.
chars(n) ==
    CASE n = "file_operations" ->
            <<"f", "i", "l", "e", "_", "o", "p", "e", "r", "a", "t", "i", "o", "n", "s">>
      [] n = "research" -> <<"r", "e", "s", "e", "a", "r", "c", "h">>
      [] n = "weather" -> <<"w", "e", "a", "t", "h", "e", "r">>
      [] n = "math" -> <<"m", "a", "t", "h">>

\* What the routing model may answer: names as asked for, names in other
\* letter case or wrapped in whitespace, and texts that are no name.
RoutingAnswers ==
    { chars("file_operations"),
      chars("research"),
      chars("weather"),
      chars("math"),
      <<"R", "e", "s", "e", "a", "r", "c", "h">>,
      <<" ", "M", "A", "T", "H", "\n">>,
      <<"\t", "f", "i", "l", "e", "_", "o", "p", "e", "r", "a", "t", "i", "o", "n", "s", " ", " ">>,
      <<"r", "e", "s", "e", "a", "r", "c", "h", ".">>,
      <<"f", "i", "l", "e", " ", "o", "p", "e", "r", "a", "t", "i", "o", "n", "s">>,
      <<"w", "e", "a", "t", "h">>,
      <<>> }

\* ------------------------------------------------------------ can_handle

file_keywords ==
    <<"file", "read", "write", "save", "delete", "list", "directory",
      "folder", "create", "append", "open", "load">>

research_keywords ==
    <<"search", "research", "find", "information", "analyze", "summarize",
      "topic", "web", "look up", "investigate", "study">>

weather_keywords ==
    <<"weather", "temperature", "forecast", "rain", "snow", "sunny",
      "cloudy", "storm", "wind", "climate", "hot", "cold", "warm",
      "degrees", "celsius", "fahrenheit", "humidity", "precipitation",
      "air quality", "aqi", "pollution", "timezone", "time zone">>

math_keywords ==
    <<"calculate", "compute", "math", "convert", "units",
      "add", "subtract", "multiply", "divide", "plus", "minus">>

\* sum(1 for keyword in keywords if keyword in request_lower)
keyword_matches(keywords, request) ==
    Cardinality({i \in 1..Len(keywords) : str_contains(str_lower(request), keywords[i])})

\* Confidence scores are kept in hundredths: 0.9 is 90.
FileOperationsAgent_can_handle(request) ==
    LET matches == keyword_matches(file_keywords, request)
    IN  IF matches >= 2 THEN 90 ELSE IF matches = 1 THEN 70 ELSE 30

ResearchAgent_can_handle(request) ==
    LET matches == keyword_matches(research_keywords, request)
    IN  IF matches >= 2 THEN 90 ELSE IF matches = 1 THEN 70 ELSE 30

WeatherAgent_can_handle(request) ==
    LET matches == keyword_matches(weather_keywords, request)
    IN  IF matches >= 2 THEN 95 ELSE IF matches = 1 THEN 85 ELSE 10

MathAgent_can_handle(request) ==
    LET matches == keyword_matches(math_keywords, request)
    IN  IF matches >= 2 THEN 90 ELSE IF matches = 1 THEN 75 ELSE 30

\* agent.can_handle(request) of agent object a.
can_handle(a, request) ==
    CASE heap[a].cls = "FileOperationsAgent" -> FileOperationsAgent_can_handle(request)
      [] heap[a].cls = "ResearchAgent" -> ResearchAgent_can_handle(request)
      [] heap[a].cls = "WeatherAgent" -> WeatherAgent_can_handle(request)
      [] heap[a].cls = "MathAgent" -> MathAgent_can_handle(request)

\* ---------------------------------------------------- agents: execute

\* The ceiling of the tool-execution loop.
max_iterations == 5

ToolAgentClasses == {"FileOperationsAgent", "ResearchAgent"}

FileOperationsAgent_get_tools ==
    <<"read_file", "write_file", "list_files", "delete_file", "append_to_file">>

ResearchAgent_get_tools ==
    <<"web_search", "summarize_content", "extract_information", "analyze_topic">>

\* The names of the tools bound to a tool-calling agent of class cls.
get_tools(cls) ==
    CASE cls = "FileOperationsAgent" -> FileOperationsAgent_get_tools
      [] cls = "ResearchAgent" -> ResearchAgent_get_tools

\* A lookup that finds every tool name.
tool_is_always_bound(cls, tool_name) == TRUE

\* tools = {tool.name: tool for tool in self.get_tools()}; tool_name in tools
tool_is_bound(cls, tool_name) ==
    \E i \in 1..Len(get_tools(cls)) : get_tools(cls)[i] = tool_name

\* state.get(key, default)
state_get(st, key, default) == IF key \in DOMAIN st THEN st[key] ELSE default

\* A check that takes only None for missing input.
is_none_only(text) == text = None

\* not user_input: the empty string and None are falsy.
is_falsy(text) == text = "" \/ text = None

\* The literal texts of the execute methods, by class.
error_prefix(cls) ==
    CASE cls = "FileOperationsAgent" -> "Error in File Operations Agent: "
      [] cls = "ResearchAgent" -> "Error in Research Agent: "
      [] cls = "WeatherAgent" -> "Error in Weather Agent: "
      [] cls = "MathAgent" -> "Error in Math Agent: "

default_output(cls) ==
    CASE cls = "FileOperationsAgent" -> "Task completed successfully."
      [] cls = "ResearchAgent" -> "Research completed."

max_iterations_output(cls) ==
    CASE cls = "FileOperationsAgent" ->
            "Task execution reached maximum iterations. Please try breaking down your request."
      [] cls = "ResearchAgent" ->
            "Research execution reached maximum iterations. Please try breaking down your question."

system_msg(cls) ==
    CASE cls = "FileOperationsAgent" -> "You are a File Operations Agent. ..."
      [] cls = "ResearchAgent" -> "You are a Research Agent. ..."

\* The update execute returns on empty or missing input.
no_input_update(a) ==
    [agent_output |-> "Error: No user input provided.", current_agent |-> agent_name(a)]

\* An except handler that hands the exception text on unmarked.
bare_error_update(a, e) == [agent_output |-> e]

\* The update of the except handler: the agent's error prefix, then str(e).
error_update(a, e) ==
    [agent_output |-> error_prefix(heap[a].cls) \o e, current_agent |-> agent_name(a)]

\* The update returned when the model asks for no tool.
final_update(a, response, iteration) ==
    [agent_output |-> IF response.content # "" THEN response.content
                      ELSE default_output(heap[a].cls),
     current_agent |-> agent_name(a),
     metadata |-> [agent |-> agent_name(a), iterations |-> iteration + 1]]

\* The update returned after the loop ran out.
max_iterations_update(a) ==
    [agent_output |-> max_iterations_output(heap[a].cls), current_agent |-> agent_name(a)]

\* The tool message appended for a tool call that was executed.
tool_result_message(tool_call, tool_result) ==
    [role |-> "tool", content |-> tool_result,
     tool_call_id |-> tool_call.id, name |-> tool_call.name]

\* The tool message appended for a tool call whose name is not bound.
tool_not_found_message(tool_call) ==
    [role |-> "tool", content |-> "Error: Tool '" \o tool_call.name \o "' not found",
     tool_call_id |-> tool_call.id, name |-> tool_call.name]

\* A loop that runs one pass more.
loop_continues_once_more(iteration) == iteration < max_iterations

\* for iteration in range(max_iterations): whether another pass follows
\* the pass numbered iteration.
loop_continues(iteration) == iteration + 1 < max_iterations

\* The frame of an execute call: where it stands and its local variables.
NoFrame ==
    [agent |-> 0, phase |-> "none", user_input |-> "", messages |-> <<>>,
     iteration |-> 0, pending |-> <<>>, k |-> 0, reasoning |-> "",
     results |-> <<>>, ret |-> <<>>]

returned(frame, update) == [frame EXCEPT !.phase = "returned", !.ret = update]

\* What the model bound to the tools of class cls may answer.
UnboundTool == "rename_file"

ToolCallLists(cls) ==
    { <<[name |-> get_tools(cls)[1], args |-> "args", id |-> "call_1"]>>,
      <<[name |-> UnboundTool, args |-> "args", id |-> "call_2"],
        [name |-> get_tools(cls)[2], args |-> "args", id |-> "call_3"]>> }

ModelResponses(cls) ==
    {[content |-> c, tool_calls |-> <<>>] : c \in {"", "model text"}}
    \cup {[content |-> "partial text", tool_calls |-> tc] : tc \in ToolCallLists(cls)}

\* str(tool_result) of a tool that ran.
ToolResults == {"tool result"}

\* str(e) of what a model or tool invocation raises.
Exceptions == {"connection error"}

\* execute of a tool-calling agent, from its entry to its first model
\* invocation: the frame it leaves.
ToolAgent_execute_enter(a, st) ==
    LET user_input == state_get(st, "user_input", "")
        f == [NoFrame EXCEPT !.agent = a, !.user_input = user_input]
    IN  IF is_falsy(user_input)
        THEN returned(f, no_input_update(a))
        ELSE [f EXCEPT !.phase = "llm",
                       !.messages = <<[role |-> "system", content |-> system_msg(heap[a].cls)],
                                      [role |-> "user", content |-> user_input]>>]

\* ... and the agent object it leaves (agent_executor created on first use).
ToolAgent_execute_enter_heap(a, st) ==
    IF is_falsy(state_get(st, "user_input", ""))
    THEN heap
    ELSE [heap EXCEPT ![a].agent_executor = "llm_with_tools"]

\* response = self.agent_executor.invoke(messages), and what follows up to
\* the next invocation.
ToolAgent_after_response(frame, response) ==
    IF response.tool_calls = <<>>
    THEN returned(frame, final_update(frame.agent, response, frame.iteration))
    ELSE [frame EXCEPT !.messages = Append(@, [type |-> "ai", content |-> response.content,
                                               tool_calls |-> response.tool_calls]),
                       !.pending = response.tool_calls,
                       !.k = 1,
                       !.phase = "tool"]

\* A loop that goes back to the model after the first tool call of a
\* response.
ToolAgent_advance_early(frame) ==
    IF loop_continues(frame.iteration)
    THEN [frame EXCEPT !.iteration = @ + 1, !.phase = "llm", !.pending = <<>>, !.k = 0]
    ELSE returned([frame EXCEPT !.pending = <<>>, !.k = 0],
                  max_iterations_update(frame.agent))

\* The end of the handling of tool call k: the next call of the response,
\* the next pass of the loop, or the return after the last pass.
ToolAgent_advance(frame) ==
    IF frame.k < Len(frame.pending)
    THEN [frame EXCEPT !.k = @ + 1]
    ELSE IF loop_continues(frame.iteration)
    THEN [frame EXCEPT !.iteration = @ + 1, !.phase = "llm", !.pending = <<>>, !.k = 0]
    ELSE returned([frame EXCEPT !.pending = <<>>, !.k = 0],
                  max_iterations_update(frame.agent))

\* One model invocation of the loop.
ToolAgent_llm_invoke ==
    /\ ex.phase = "llm"
    /\ heap[ex.agent].cls \in ToolAgentClasses
    /\ \/ \E response \in ModelResponses(heap[ex.agent].cls) :
            /\ ex' = ToolAgent_after_response(ex, response)
            /\ calls' = Append(calls, [kind |-> "llm", name |-> agent_name(ex.agent),
                                       raised |-> FALSE])
       \/ \E e \in Exceptions :
            /\ ex' = returned(ex, error_update(ex.agent, e))
            /\ calls' = Append(calls, [kind |-> "llm", name |-> agent_name(ex.agent),
                                       raised |-> TRUE])
    /\ UNCHANGED <<registryVars, threadVars, streamVars, supervisorVars, heap>>

\* The handling of one tool call of the response.
ToolAgent_tool_call ==
    /\ ex.phase = "tool"
    /\ heap[ex.agent].cls \in ToolAgentClasses
    /\ LET tool_call == ex.pending[ex.k]
       IN  IF tool_is_bound(heap[ex.agent].cls, tool_call.name)
           THEN \/ \E tool_result \in ToolResults :
                     /\ ex' = ToolAgent_advance(
                                [ex EXCEPT !.messages =
                                    Append(@, tool_result_message(tool_call, tool_result))])
                     /\ calls' = Append(calls, [kind |-> "tool", name |-> tool_call.name,
                                                raised |-> FALSE])
                \/ \E e \in Exceptions :
                     /\ ex' = returned(ex, error_update(ex.agent, e))
                     /\ calls' = Append(calls, [kind |-> "tool", name |-> tool_call.name,
                                                raised |-> TRUE])
           ELSE /\ ex' = ToolAgent_advance(
                            [ex EXCEPT !.messages = Append(@, tool_not_found_message(tool_call))])
                /\ UNCHANGED calls
    /\ UNCHANGED <<registryVars, threadVars, streamVars, supervisorVars, heap>>

\* ------------------------------------------------- MCPClientManager

\* What the tool provider does during one synchronous operation of the
\* manager: whether the connection comes up, whether the request succeeds
\* (and its value), whether closing the session and transport succeeds.
McpOutcomes(values, novalue) ==
    {[connect |-> "error", call |-> "error", value |-> novalue, disconnect |-> "ok"]}
    \cup {[connect |-> "ok", call |-> "error", value |-> novalue, disconnect |-> d] :
            d \in {"ok", "error"}}
    \cup {[connect |-> "ok", call |-> "ok", value |-> v, disconnect |-> d] :
            v \in values, d \in {"ok", "error"}}

\* _connect: nothing when already connected; raises when the server cannot
\* be reached. Gives [raised, connected].
mcp_connect(connected, o) ==
    IF connected THEN [raised |-> FALSE, connected |-> TRUE]
    ELSE IF o.connect = "error" THEN [raised |-> TRUE, connected |-> FALSE]
    ELSE [raised |-> FALSE, connected |-> TRUE]

\* _disconnect: an error while closing is swallowed and leaves connected set.
mcp_disconnect(connected, o) ==
    IF ~connected THEN FALSE
    ELSE IF o.disconnect = "error" THEN TRUE
    ELSE FALSE

\* list_tools(): [raised, value, connected].
mcp_list_tools(connected, o) ==
    LET c == mcp_connect(connected, o)
    IN  IF c.raised
        THEN [raised |-> TRUE, value |-> <<>>, connected |-> c.connected]
        ELSE [raised |-> FALSE,
              value |-> IF o.call = "error" THEN <<>> ELSE o.value,
              connected |-> mcp_disconnect(c.connected, o)]

\* execute_tool_call(tool_name, arguments): [raised, value, connected].
mcp_execute_tool_call(connected, tool_name, o) ==
    LET c == mcp_connect(connected, o)
    IN  IF c.raised
        THEN [raised |-> TRUE, value |-> "", connected |-> c.connected]
        ELSE [raised |-> FALSE,
              value |-> IF o.call = "error"
                        THEN "Error calling tool " \o tool_name \o ": call failed"
                        ELSE o.value,
              connected |-> mcp_disconnect(c.connected, o)]

\* The tool lists the weather server may expose, as lists of tool dicts.
McpToolLists ==
    { <<[name |-> "get_current_weather"], [name |-> "get_air_quality"]>> }

McpToolResults == {"mcp result"}

\* ------------------------------------------------------- WeatherAgent

\* tool_name.replace("_", " ")
str_replace_underscores(tool_name) ==
    CASE tool_name = "get_current_weather" -> "get current weather"
      [] tool_name = "get_air_quality" -> "get air quality"

\* A load that hands back the tools of the last load when the provider
\* cannot be reached: not the code's, kept for comparison.
_load_mcp_tools_stale(obj, o) ==
    LET r == mcp_list_tools(obj.connected, o)
    IN  IF r.raised \/ o.call = "error"
        THEN [obj |-> [obj EXCEPT !.connected = r.connected],
              tools |-> obj.available_tools]
        ELSE [obj |-> [obj EXCEPT !.available_tools = r.value,
                                  !._capabilities_cache = <<>>,
                                  !.connected = r.connected],
              tools |-> r.value]

\* _load_mcp_tools on agent object obj with provider behaviour o:
\* [obj, tools], the object it leaves and the list it returns.
_load_mcp_tools(obj, o) ==
    LET r == mcp_list_tools(obj.connected, o)
    IN  IF r.raised
        THEN [obj |-> [obj EXCEPT !.available_tools = <<>>, !.connected = r.connected],
              tools |-> <<>>]
        ELSE [obj |-> [obj EXCEPT !.available_tools = r.value,
                                  !._capabilities_cache = <<>>,
                                  !.connected = r.connected],
              tools |-> r.value]

\* The capabilities property: [obj, value]; it fills the cache when empty.
capabilities(obj) ==
    IF obj._capabilities_cache # <<>>
    THEN [obj |-> obj, value |-> obj._capabilities_cache]
    ELSE LET caps == [i \in 1..Len(obj.available_tools) |->
                        str_replace_underscores(obj.available_tools[i].name)]
             cache == IF caps # <<>> THEN caps ELSE <<"weather information">>
         IN  [obj |-> [obj EXCEPT !._capabilities_cache = cache], value |-> cache]

\* WeatherAgent.__init__: load the tools, then BaseAgent.__init__ validates
\* the metadata, which reads (and caches) the capabilities.
WeatherAgent_init(o) ==
    capabilities(_load_mcp_tools(new_agent("WeatherAgent"), o).obj).obj

\* The object agent_class() constructs, given what the tool provider does.
construct(cls, o) ==
    IF cls = "WeatherAgent" THEN WeatherAgent_init(o) ELSE new_agent(cls)

\* What the constructor of cls may meet at the tool provider.
ConstructOutcomes(cls) ==
    IF cls = "WeatherAgent" THEN McpOutcomes(McpToolLists, <<>>) ELSE {None}

unavailable_output ==
    "Weather service is currently unavailable. Please ensure mcp_weather_server is installed: pip install mcp-weather-server"

clarify_output ==
    "I need more specific information about what weather data you're looking for. Please specify a city or location."

\* The model's reasoning text: raw is the text itself, tokens is the same
\* text cut into "{", "}", "fence" (a code fence), "json", "ws"
\* (whitespace), "prose" (words), "[]" (a JSON array), "bad" (text that is
\* no JSON) and "members" (the members of a JSON object, whose parse is
\* data).
RECURSIVE tokens_lstrip(_)
tokens_lstrip(t) == IF t # <<>> /\ t[1] = "ws" THEN tokens_lstrip(Tail(t)) ELSE t

RECURSIVE tokens_rstrip(_)
tokens_rstrip(t) ==
    IF t # <<>> /\ t[Len(t)] = "ws" THEN tokens_rstrip(SubSeq(t, 1, Len(t) - 1)) ELSE t

JSONDecodeError == "JSONDecodeError"

\* json.loads on the tokens t of a text whose members parse to data: the
\* dict of a JSON object, the list of a JSON array, JSONDecodeError
\* otherwise. Surrounding whitespace is allowed.
json_loads(t, data) ==
    LET u == tokens_rstrip(tokens_lstrip(t))
    IN  IF u = <<"{", "}">> THEN [kind |-> "dict", value |-> <<>>]
        ELSE IF u = <<"{", "members", "}">> THEN [kind |-> "dict", value |-> data]
        ELSE IF u = <<"[]">> THEN [kind |-> "list", value |-> <<>>]
        ELSE [kind |-> JSONDecodeError, value |-> <<>>]

\* The first position at or after i that holds no whitespace token.
RECURSIVE skip_ws(_, _)
skip_ws(t, i) == IF i <= Len(t) /\ t[i] = "ws" THEN skip_ws(t, i + 1) ELSE i

\* The fenced-block pattern of line 209 (a fence, an optional "json",
\* whitespace, a shortest brace-delimited group, whitespace, a fence),
\* anchored at the fence at position i: the span <<p, q>> of group 1, or <<>>.
fence_match_at(t, i) ==
    LET j == IF i + 1 <= Len(t) /\ t[i + 1] = "json" THEN i + 2 ELSE i + 1
        p == skip_ws(t, j)
        ends == {q \in p..Len(t) :
                    /\ t[q] = "}"
                    /\ skip_ws(t, q + 1) <= Len(t)
                    /\ t[skip_ws(t, q + 1)] = "fence"}
    IN  IF t[i] = "fence" /\ p <= Len(t) /\ t[p] = "{" /\ ends # {}
        THEN <<p, CHOOSE q \in ends : \A r \in ends : q <= r>>
        ELSE <<>>

\* The leftmost match of the fenced-block pattern: the tokens of group 1,
\* or <<>> for no match.
search_fenced(t) ==
    LET starts == {i \in 1..Len(t) : fence_match_at(t, i) # <<>>}
    IN  IF starts = {} THEN <<>>
        ELSE LET i == CHOOSE i \in starts : \A k \in starts : i <= k
                 m == fence_match_at(t, i)
             IN  SubSeq(t, m[1], m[2])

\* The brace pattern of line 211: from the first "{" to the last "}" after
\* it: the tokens of group 0, or <<>> for no match.
search_braces(t) ==
    LET opens == {i \in 1..Len(t) : t[i] = "{" /\ \E q \in i..Len(t) : t[q] = "}"}
    IN  IF opens = {} THEN <<>>
        ELSE LET p == CHOOSE i \in opens : \A k \in opens : i <= k
                 q == CHOOSE q \in p..Len(t) :
                        t[q] = "}" /\ \A r \in p..Len(t) : t[r] = "}" => r <= q
             IN  SubSeq(t, p, q)

\* A parse that tries every stage in turn and falls back to the raw text
\* whenever none of them parses: not the code's, kept for comparison.
parse_try_every_stage(text) ==
    LET direct == json_loads(text.tokens, text.data)
        fenced == search_fenced(text.tokens)
        braces == search_braces(text.tokens)
        inner_fenced == json_loads(fenced, text.data)
        inner_braces == json_loads(braces, text.data)
    IN  IF direct.kind = "dict" THEN [kind |-> "data", value |-> direct]
        ELSE IF fenced # <<>> /\ inner_fenced.kind = "dict"
        THEN [kind |-> "data", value |-> inner_fenced]
        ELSE IF braces # <<>> /\ inner_braces.kind = "dict"
        THEN [kind |-> "data", value |-> inner_braces]
        ELSE [kind |-> "raw", value |-> direct]

\* The parse of the reasoning text (lines 204-225): [kind, value] with kind
\* "data" (reasoning_data is value), "clarify" or "raw" (execute returns).
parse_reasoning(text) ==
    LET direct == json_loads(text.tokens, text.data)
    IN  IF direct.kind # JSONDecodeError THEN [kind |-> "data", value |-> direct]
        ELSE LET fenced == search_fenced(text.tokens)
                 json_match == IF fenced # <<>> THEN fenced ELSE search_braces(text.tokens)
             IN  IF json_match # <<>>
                 THEN LET inner == json_loads(json_match, text.data)
                      IN  IF inner.kind # JSONDecodeError
                          THEN [kind |-> "data", value |-> inner]
                          ELSE [kind |-> "clarify", value |-> direct]
                 ELSE [kind |-> "raw", value |-> direct]

\* dict.get(key, default) on the parsed members.
dict_get_default(d, key, default) == IF key \in DOMAIN d THEN d[key] ELSE default

OneCall == <<[tool |-> "get_current_weather", arguments |-> "args"]>>

TwoCalls ==
    <<[tool |-> "get_current_weather", arguments |-> "args"],
      [tool |-> "get_air_quality", arguments |-> "args"]>>

\* The reasoning texts the model may answer with.
ReasoningTexts ==
    { [raw |-> "{reasoning: need weather, tool_calls: [get_current_weather]}",
       tokens |-> <<"{", "members", "}">>,
       data |-> [reasoning |-> "need weather", tool_calls |-> OneCall]],
      [raw |-> "{reasoning: need both, tool_calls: [get_current_weather, get_air_quality]} ",
       tokens |-> <<"{", "members", "}", "ws">>,
       data |-> [reasoning |-> "need both", tool_calls |-> TwoCalls]],
      [raw |-> "{reasoning: which city?, tool_calls: []}",
       tokens |-> <<"{", "members", "}">>,
       data |-> [reasoning |-> "which city?", tool_calls |-> <<>>]],
      [raw |-> "{reasoning: no calls key}",
       tokens |-> <<"{", "members", "}">>,
       data |-> [reasoning |-> "no calls key"]],
      [raw |-> "[]",
       tokens |-> <<"[]">>,
       data |-> <<>>],
      [raw |-> "Sure: [fence]json {reasoning: fenced, tool_calls: [get_current_weather]} [fence]",
       tokens |-> <<"prose", "ws", "fence", "json", "ws", "{", "members", "}", "ws", "fence">>,
       data |-> [reasoning |-> "fenced", tool_calls |-> OneCall]],
      [raw |-> "[fence]{city}[fence] {reasoning: after bad fence, tool_calls: [get_current_weather]}",
       tokens |-> <<"fence", "{", "bad", "}", "fence", "ws", "{", "members", "}">>,
       data |-> [reasoning |-> "after bad fence", tool_calls |-> OneCall]],
      [raw |-> "Answer{reasoning: braces, tool_calls: []}thanks",
       tokens |-> <<"prose", "{", "members", "}", "prose">>,
       data |-> [reasoning |-> "braces", tool_calls |-> <<>>]],
      [raw |-> "Use{city}",
       tokens |-> <<"prose", "{", "bad", "}">>,
       data |-> <<>>],
      [raw |-> "Which city?",
       tokens |-> <<"prose", "ws", "prose">>,
       data |-> <<>>] }

\* execute of the weather agent, from its entry to _load_mcp_tools.
WeatherAgent_execute_enter(a, st) ==
    LET user_input == state_get(st, "user_input", "")
        f == [NoFrame EXCEPT !.agent = a, !.user_input = user_input]
    IN  IF is_falsy(user_input)
        THEN returned(f, no_input_update(a))
        ELSE [f EXCEPT !.phase = "load_mcp_tools"]

\* mcp_tools = self._load_mcp_tools(), and the check that follows.
WeatherAgent_load ==
    /\ ex.phase = "load_mcp_tools"
    /\ \E o \in McpOutcomes(McpToolLists, <<>>) :
         LET r == _load_mcp_tools(heap[ex.agent], o)
         IN  /\ heap' = [heap EXCEPT ![ex.agent] = r.obj]
             /\ calls' = Append(calls, [kind |-> "mcp_list_tools", name |-> "weather",
                                        raised |-> FALSE, failed |-> o.call = "error"])
             /\ ex' = IF r.tools = <<>>
                      THEN returned(ex, [agent_output |-> unavailable_output,
                                         current_agent |-> agent_name(ex.agent)])
                      ELSE [ex EXCEPT !.phase = "reasoning"]
    /\ UNCHANGED <<registryVars, threadVars, streamVars, supervisorVars>>

\* A test that takes every list of tool calls for non-empty: not the
\* code's, kept for comparison.
tool_calls_never_empty(tool_calls) == FALSE

\* "if not tool_calls" (line 231) on the list of tool calls.
no_tool_calls(tool_calls) == tool_calls = <<>>

\* What execute does with the reasoning text, up to the first tool call.
WeatherAgent_after_reasoning(frame, reasoning_text) ==
    LET a == frame.agent
        parsed == parse_reasoning(reasoning_text)
    IN  IF parsed.kind = "raw"
        THEN returned(frame, [agent_output |-> reasoning_text.raw,
                              current_agent |-> agent_name(a)])
        ELSE IF parsed.kind = "clarify"
        THEN returned(frame, [agent_output |-> clarify_output, current_agent |-> agent_name(a)])
        ELSE IF parsed.value.kind # "dict"
        THEN returned(frame, error_update(a, "'list' object has no attribute 'get'"))
        ELSE LET tool_calls == dict_get_default(parsed.value.value, "tool_calls", <<>>)
                 reasoning == dict_get_default(parsed.value.value, "reasoning", "")
             IN  IF no_tool_calls(tool_calls)
                 THEN returned(frame, [agent_output |-> reasoning,
                                       current_agent |-> agent_name(a)])
                 ELSE [frame EXCEPT !.phase = "mcp_tool", !.pending = tool_calls,
                                    !.k = 1, !.reasoning = reasoning]

\* reasoning_response = self.llm.invoke(reasoning_prompt), and the parse.
WeatherAgent_reasoning ==
    /\ ex.phase = "reasoning"
    /\ \/ \E reasoning_text \in ReasoningTexts :
            /\ ex' = WeatherAgent_after_reasoning(ex, reasoning_text)
            /\ calls' = Append(calls, [kind |-> "llm", name |-> "weather", raised |-> FALSE,
                                       content |-> reasoning_text.raw])
       \/ \E e \in Exceptions :
            /\ ex' = returned(ex, error_update(ex.agent, e))
            /\ calls' = Append(calls, [kind |-> "llm", name |-> "weather", raised |-> TRUE])
    /\ UNCHANGED <<registryVars, threadVars, streamVars, supervisorVars, heap>>

\* result = self.mcp_manager.execute_tool_call(tool_name, arguments)
WeatherAgent_mcp_tool ==
    /\ ex.phase = "mcp_tool"
    /\ \E o \in McpOutcomes(McpToolResults, "") :
         LET tool_name == ex.pending[ex.k].tool
             r == mcp_execute_tool_call(heap[ex.agent].connected, tool_name, o)
         IN  /\ heap' = [heap EXCEPT ![ex.agent].connected = r.connected]
             /\ calls' = Append(calls, [kind |-> "mcp_tool", name |-> tool_name,
                                        raised |-> r.raised, failed |-> o.call = "error"])
             /\ ex' = IF r.raised
                      THEN returned(ex, error_update(ex.agent, "connection error"))
                      ELSE LET f == [ex EXCEPT !.results =
                                        Append(@, [tool |-> tool_name, result |-> r.value])]
                           IN  IF ex.k < Len(ex.pending)
                               THEN [f EXCEPT !.k = @ + 1]
                               ELSE [f EXCEPT !.phase = "final_llm"]
    /\ UNCHANGED <<registryVars, threadVars, streamVars, supervisorVars>>

\* final_response = self.llm.invoke(final_prompt)
WeatherAgent_final ==
    /\ ex.phase = "final_llm"
    /\ \/ \E output \in {"model text"} :
            /\ ex' = returned(ex,
                        [agent_output |-> output,
                         current_agent |-> agent_name(ex.agent),
                         metadata |-> [agent |-> agent_name(ex.agent),
                                       mcp_tools_used |->
                                          [i \in 1..Len(ex.results) |-> ex.results[i].tool],
                                       reasoning |-> ex.reasoning]])
            /\ calls' = Append(calls, [kind |-> "llm", name |-> "weather", raised |-> FALSE])
       \/ \E e \in Exceptions :
            /\ ex' = returned(ex, error_update(ex.agent, e))
            /\ calls' = Append(calls, [kind |-> "llm", name |-> "weather", raised |-> TRUE])
    /\ UNCHANGED <<registryVars, threadVars, streamVars, supervisorVars, heap>>

\* ----------------------------------------------------------- MathAgent

\* execute of the math agent: _create_agent_executor calls initialize_agent,
\* a name the module never imports, so every call with input ends in the
\* except handler before the executor exists.
MathAgent_execute_enter(a, st) ==
    LET user_input == state_get(st, "user_input", "")
        f == [NoFrame EXCEPT !.agent = a, !.user_input = user_input]
    IN  IF is_falsy(user_input)
        THEN returned(f, no_input_update(a))
        ELSE returned(f, error_update(a, "name 'initialize_agent' is not defined"))

\* ------------------------------------------------------- AgentRegistry

\* __new__: the first construction creates the singleton and rebinds
\* cls._agents to a fresh dict; later constructions return the singleton.
AgentRegistry_new ==
    /\ _instance' = TRUE
    /\ _agents' = IF _instance = FALSE THEN <<>> ELSE _agents
    /\ reset' = (reset \/ (_instance = FALSE /\ _agents # <<>>))
    /\ lastCall' = [op |-> "AgentRegistry", raised |-> None]
    /\ UNCHANGED <<heap, log>>
    /\ UNCHANGED <<supervisorVars, threadVars, streamVars, ex, calls>>

\* A register that puts the new agent first.
register_insert_first(d, n, a) == <<[key |-> n, agent |-> a]>> \o d

\* A duplicate check that finds nothing.
register_never_duplicate(d, n) == FALSE

\* The catalog register leaves, given the constructed agent a of name n.
register_insert(d, n, a) == dict_setitem(d, n, a)

\* The duplicate check of register.
register_is_duplicate(d, n) == dict_contains(d, n)

\* register(agent_class) on a class that is not a BaseAgent: TypeError
\* before anything is constructed.
register_TypeError(cls) ==
    /\ cls \in OtherClasses
    /\ lastCall' = [op |-> "register", cls |-> cls, raised |-> "TypeError"]
    /\ UNCHANGED <<_instance, _agents, heap, log, reset>>
    /\ UNCHANGED <<supervisorVars, threadVars, streamVars, ex, calls>>

\* register(agent_class): construct, reject a duplicate name, insert.
register(cls) ==
    /\ cls \in AgentClasses
    /\ Len(heap) < MaxInst
    /\ LET a == Len(heap) + 1
           n == name(cls)
           dup == register_is_duplicate(_agents, n)
       IN  /\ \E o \in ConstructOutcomes(cls) : heap' = Append(heap, construct(cls, o))
           /\ log' = Append(log, [name |-> n, agent |-> a])
           /\ _agents' = IF dup THEN _agents ELSE register_insert(_agents, n, a)
           /\ lastCall' = [op |-> "register", cls |-> cls, name |-> n, agent |-> a,
                           raised |-> IF dup THEN "ValueError" ELSE None]
    /\ UNCHANGED <<_instance, reset>>
    /\ UNCHANGED <<supervisorVars, threadVars, streamVars, ex, calls>>

get_agent(n) == dict_get(_agents, n)

\* A listing in the reverse of the insertion order: not the code's, kept
\* for comparison.
get_all_agents_reversed ==
    [i \in 1..Len(_agents) |-> _agents[Len(_agents) + 1 - i].agent]

get_all_agents == dict_values(_agents)

get_agent_names == dict_keys(_agents)

\* A lookup that remembers every name that was ever registered: not the
\* code's, kept for comparison.
agent_exists_ever(n) == \E i \in 1..Len(log) : log[i].name = n

agent_exists(n) == dict_contains(_agents, n)

\* A caller calls AgentRegistry.get_all_agents() and keeps the list.
AgentRegistry_get_all_agents ==
    /\ lastCall' = [op |-> "get_all_agents", raised |-> None, value |-> get_all_agents]
    /\ UNCHANGED <<_instance, _agents, heap, log, reset>>
    /\ UNCHANGED <<supervisorVars, threadVars, streamVars, ex, calls>>

\* clear(): cls._agents.clear()
clear ==
    /\ _agents' = <<>>
    /\ reset' = TRUE
    /\ lastCall' = [op |-> "clear", raised |-> None]
    /\ UNCHANGED <<_instance, heap, log>>
    /\ UNCHANGED <<supervisorVars, threadVars, streamVars, ex, calls>>

\* ------------------------------------------------- agent.execute(state)

\* The frame agent.execute(st) of agent object a has when it reaches its
\* first outside call (or has returned).
execute_enter(a, st) ==
    CASE heap[a].cls \in ToolAgentClasses -> ToolAgent_execute_enter(a, st)
      [] heap[a].cls = "WeatherAgent" -> WeatherAgent_execute_enter(a, st)
      [] heap[a].cls = "MathAgent" -> MathAgent_execute_enter(a, st)

execute_enter_heap(a, st) ==
    IF heap[a].cls \in ToolAgentClasses THEN ToolAgent_execute_enter_heap(a, st) ELSE heap

\* ------------------------------------------------- SupervisorWorkflow

\* build(): one node per agent registered at the time, compiled.
build ==
    /\ pc = "idle"
    /\ ~app.built
    /\ app' = [built |-> TRUE,
                nodes |-> {get_agent_names[i] : i \in 1..Len(get_agent_names)}]
    /\ UNCHANGED <<registryVars, threadVars, streamVars, heap, pc, state, result, route, ex, calls>>

initial_state(user_input) ==
    [messages |-> <<>>, user_input |-> user_input, current_agent |-> None,
     agent_output |-> None, next_action |-> None, task_complete |-> FALSE,
     metadata |-> <<>>]

\* A node's update applied to the state: the keys of the update replace
\* the state's.
apply_update(st, update) ==
    [key \in DOMAIN st \cup DOMAIN update |->
        IF key \in DOMAIN update THEN update[key] ELSE st[key]]

\* No invoke has returned yet; no routing decision is waiting for its node.
NoResult == [raised |-> None, value |-> <<>>]

NoRoute == [routed |-> FALSE, agents |-> <<>>, llm |-> FALSE]

\* What the MemorySaver checkpoint of the caller's thread id holds between
\* requests: the channel values the last step of the last request left.
\* main.py uses the one thread id "main_session".
checkpoint == state

\* invoke before build(): ValueError.
invoke_not_built(user_input) ==
    /\ pc = "idle"
    /\ ~app.built
    /\ result' = [raised |-> "ValueError", value |-> <<>>]
    /\ UNCHANGED <<registryVars, threadVars, streamVars, heap, app, pc, state, route, ex, calls>>

\* invoke(user_input): the graph starts at route_request on a fresh state.
invoke(user_input) ==
    /\ pc = "idle"
    /\ app.built
    /\ state' = initial_state(user_input)
    /\ pc' = "route_request"
    /\ calls' = <<>>
    /\ ex' = NoFrame
    /\ result' = NoResult
    /\ route' = NoRoute
    /\ steps' = <<>>
    /\ UNCHANGED <<registryVars, threadVars, heap, app>>

\* An initial state of stream that keeps a next_action of an earlier
\* request: not the code's, kept for comparison.
stream_initial_state_stale(user_input) ==
    [messages |-> <<>>, user_input |-> user_input, current_agent |-> None,
     agent_output |-> None, next_action |-> "execute_file_operations",
     task_complete |-> FALSE, metadata |-> <<>>]

\* The initial state stream builds (lines 289-297), a literal of its own.
stream_initial_state(user_input) ==
    [messages |-> <<>>, user_input |-> user_input, current_agent |-> None,
     agent_output |-> None, next_action |-> None, task_complete |-> FALSE,
     metadata |-> <<>>]

\* stream(user_input, thread_id), from the first next() of its generator:
\* the same initial state and thread configuration as invoke, handed to
\* app.stream, which runs the same compiled graph and yields each node's
\* update as the node ends.
stream(user_input) ==
    /\ pc = "idle"
    /\ app.built
    /\ state' = stream_initial_state(user_input)
    /\ pc' = "route_request"
    /\ calls' = <<>>
    /\ ex' = NoFrame
    /\ result' = NoResult
    /\ route' = NoRoute
    /\ steps' = <<>>
    /\ UNCHANGED <<registryVars, threadVars, heap, app>>

\* A normalisation that strips and keeps the letter case.
normalize_keep_case(content) == chars_strip(content)

\* An update that reports nothing.
empty_update == [task_complete |-> TRUE]

\* response.content.strip().lower()
normalize_answer(content) == chars_lower(chars_strip(content))

\* selected_agent_name in agent_names
answer_is_name(selected, agent_names) ==
    \E i \in 1..Len(agent_names) : chars(agent_names[i]) = selected

\* A fallback loop that lets a later agent of equal score win.
RECURSIVE best_of_last(_, _, _)
best_of_last(agents, k, user_input) ==
    IF k = 0 THEN [best_agent |-> NoAgent, best_score |-> 0]
    ELSE LET prev == best_of_last(agents, k - 1, user_input)
             score == can_handle(agents[k], user_input)
         IN  IF score >= prev.best_score
             THEN [best_agent |-> agents[k], best_score |-> score]
             ELSE prev

\* The loop of lines 98-105 over the first k agents: best_agent and
\* best_score after it.
RECURSIVE best_of(_, _, _)
best_of(agents, k, user_input) ==
    IF k = 0 THEN [best_agent |-> NoAgent, best_score |-> 0]
    ELSE LET prev == best_of(agents, k - 1, user_input)
             score == can_handle(agents[k], user_input)
         IN  IF score > prev.best_score
             THEN [best_agent |-> agents[k], best_score |-> score]
             ELSE prev

\* The name chosen from the confidence scores (line 107).
fallback_name(agents, user_input) ==
    LET best_agent == best_of(agents, Len(agents), user_input).best_agent
    IN  IF best_agent # NoAgent THEN agent_name(best_agent) ELSE agent_name(agents[1])

\* The loop of lines 98-105 on the scores alone, for agents whose
\* can_handle may return anything (0 included): the position of best_agent
\* among the first k agents (0 is None) and best_score.
RECURSIVE best_index(_, _)
best_index(scores, k) ==
    IF k = 0 THEN [best |-> 0, best_score |-> 0]
    ELSE LET prev == best_index(scores, k - 1)
         IN  IF scores[k] > prev.best_score
             THEN [best |-> k, best_score |-> scores[k]]
             ELSE prev

\* The position of the name line 107 chooses.
fallback_index(scores) ==
    LET best == best_index(scores, Len(scores)).best
    IN  IF best # 0 THEN best ELSE 1

\* A selection without the confidence scores, which hands on a text that
\* is no name: not the code's, kept for comparison.
select_agent_unchecked(agents, content, user_input) ==
    LET agent_names == [i \in 1..Len(agents) |-> agent_name(agents[i])]
        selected == normalize_answer(content)
    IN  IF answer_is_name(selected, agent_names)
        THEN [name |-> agent_names[CHOOSE i \in 1..Len(agent_names) :
                                        chars(agent_names[i]) = selected],
              fallback |-> FALSE]
        ELSE [name |-> "unknown", fallback |-> TRUE]

\* What _route_request selects for the model's answer: the name, and
\* whether the branch of line 96 (the confidence scores) was taken.
select_agent(agents, content, user_input) ==
    LET agent_names == [i \in 1..Len(agents) |-> agent_name(agents[i])]
        selected == normalize_answer(content)
    IN  IF answer_is_name(selected, agent_names)
        THEN [name |-> agent_names[CHOOSE i \in 1..Len(agent_names) :
                                        chars(agent_names[i]) = selected],
              fallback |-> FALSE]
        ELSE [name |-> fallback_name(agents, user_input), fallback |-> TRUE]

no_agents_update ==
    [agent_output |-> "Error: No agents are registered in the system.",
     task_complete |-> TRUE]

\* _route_request on an empty registry: straight to finalize.
route_request_no_agents ==
    /\ pc = "route_request"
    /\ get_all_agents = <<>>
    /\ state' = apply_update(state, no_agents_update)
    /\ pc' = "finalize"
    /\ route' = [routed |-> TRUE, agents |-> <<>>, llm |-> FALSE]
    /\ steps' = Append(steps, [node |-> "route_request", update |-> no_agents_update])
    /\ UNCHANGED <<registryVars, threadVars, heap, app, result, ex, calls>>

\* _route_request: ask the model, validate its answer, go to the agent node.
route_request ==
    /\ pc = "route_request"
    /\ get_all_agents # <<>>
    /\ \E content \in RoutingAnswers :
         LET agents == get_all_agents
             selection == select_agent(agents, content, state.user_input)
             selected_agent_name == selection.name
         IN  /\ state' = apply_update(state,
                            [current_agent |-> selected_agent_name,
                             next_action |-> "execute_" \o selected_agent_name])
             /\ pc' = IF selected_agent_name \in app.nodes
                      THEN selected_agent_name ELSE "no_such_node"
             /\ route' = [routed |-> TRUE, agents |-> agents, llm |-> TRUE,
                          content |-> content, user_input |-> state.user_input,
                          selected |-> selected_agent_name,
                          fallback |-> selection.fallback]
             /\ calls' = Append(calls, [kind |-> "routing_llm", name |-> "supervisor",
                                        raised |-> FALSE])
             /\ steps' = Append(steps,
                            [node |-> "route_request",
                             update |-> [current_agent |-> selected_agent_name,
                                         next_action |-> "execute_" \o selected_agent_name]])
    /\ UNCHANGED <<registryVars, threadVars, heap, app, result, ex>>

\* _route_request when self.llm.invoke raises: nothing in the graph catches
\* it, invoke raises to its caller.
route_request_raises ==
    /\ pc = "route_request"
    /\ get_all_agents # <<>>
    /\ \E e \in Exceptions :
         /\ result' = [raised |-> e, value |-> <<>>]
         /\ calls' = Append(calls, [kind |-> "routing_llm", name |-> "supervisor",
                                    raised |-> TRUE])
    /\ pc' = "idle"
    /\ UNCHANGED <<registryVars, threadVars, streamVars, heap, app, state, route, ex>>

agent_not_found_update(agent_name_) ==
    [agent_output |-> "Error: Agent '" \o agent_name_ \o "' not found.",
     task_complete |-> TRUE]

\* agent_node, up to the agent's first outside call: look the agent up and
\* enter its execute.
agent_node ==
    /\ pc \in app.nodes
    /\ ex.phase = "none"
    /\ LET agent == get_agent(pc)
       IN  IF agent = NoAgent
           THEN /\ state' = apply_update(state, agent_not_found_update(pc))
                /\ pc' = "finalize"
                /\ steps' = Append(steps, [node |-> pc,
                                           update |-> agent_not_found_update(pc)])
                /\ UNCHANGED <<heap, ex, calls>>
           ELSE /\ ex' = execute_enter(agent, state)
                /\ heap' = execute_enter_heap(agent, state)
                /\ calls' = Append(calls, [kind |-> "execute", name |-> agent_name(agent),
                                           raised |-> FALSE])
                /\ UNCHANGED <<state, pc, steps>>
    /\ route' = NoRoute
    /\ UNCHANGED <<registryVars, threadVars, app, result>>

\* An agent node that hands on what execute returned and nothing else.
agent_node_update_bare(ret) == ret

\* The update agent_node builds from what execute returned.
agent_node_update(ret) == apply_update(ret, [task_complete |-> TRUE])

\* agent_node after execute returned: merge the result, go to finalize.
agent_node_return ==
    /\ pc \in app.nodes
    /\ ex.phase = "returned"
    /\ state' = apply_update(state, agent_node_update(ex.ret))
    /\ pc' = "finalize"
    /\ ex' = NoFrame
    /\ steps' = Append(steps, [node |-> pc, update |-> agent_node_update(ex.ret)])
    /\ UNCHANGED <<registryVars, threadVars, heap, app, result, route, calls>>

\* _finalize returns {}; the graph ends and invoke returns the state.
finalize ==
    /\ pc = "finalize"
    /\ result' = [raised |-> None, value |-> state]
    /\ pc' = "idle"
    /\ steps' = Append(steps, [node |-> "finalize", update |-> <<>>])
    /\ UNCHANGED <<registryVars, threadVars, heap, app, state, route, ex, calls>>

\* ------------------------------------------- execute called directly

\* The states test_agent_output.py and other direct callers pass.
DirectStates ==
    {[user_input |-> u, messages |-> <<>>, current_agent |-> None, agent_output |-> None] :
        u \in {"", None, "list files in current directory"}}
    \cup {[messages |-> <<>>]}

\* agent.execute(st) called outside the graph, on agent object a.
direct_execute(a, st) ==
    /\ pc = "direct"
    /\ ex.phase \in {"none", "returned"}
    /\ ex' = execute_enter(a, st)
    /\ heap' = execute_enter_heap(a, st)
    /\ calls' = <<>>
    /\ UNCHANGED <<registryVars, threadVars, streamVars, supervisorVars>>

\* One step of the execute call in progress.
execute_step ==
    \/ ToolAgent_llm_invoke
    \/ ToolAgent_tool_call
    \/ WeatherAgent_load
    \/ WeatherAgent_reasoning
    \/ WeatherAgent_mcp_tool
    \/ WeatherAgent_final

\* ---------------------------------------------------- worker threads

\* The chat handlers of api_server.py run supervisor.invoke in a worker
\* thread each (asyncio.to_thread), with the thread id of the HTTP request:
\* every request has its own graph state, frame and result, and all of
\* them work on the one supervisor, the one registry and its agent objects.
\* A request that has not called invoke yet.
NoThread ==
    [pc |-> "idle", state |-> <<>>, result |-> NoResult, ex |-> NoFrame,
     route |-> NoRoute, calls |-> <<>>, steps |-> <<>>]

\* The request the running thread is working on.
running == [pc |-> pc, state |-> state, result |-> result, ex |-> ex,
            route |-> route, calls |-> calls, steps |-> steps]

\* The request t is between its invoke and its return.
in_flight(t) == t.pc # "idle"

\* The interpreter hands the processor to the other worker thread.
switch ==
    /\ app.built
    /\ waiting' = running
    /\ pc' = waiting.pc
    /\ state' = waiting.state
    /\ result' = waiting.result
    /\ ex' = waiting.ex
    /\ route' = waiting.route
    /\ calls' = waiting.calls
    /\ steps' = waiting.steps
    /\ UNCHANGED <<registryVars, heap, app>>

\* ------------------------------------------------------- specification

\* The process after the interpreter has loaded core.agent_registry and
\* core.supervisor and made the SupervisorWorkflow object: nothing is
\* registered, nothing is built.
Init ==
    /\ _instance = FALSE
    /\ _agents = <<>>
    /\ heap = <<>>
    /\ app = [built |-> FALSE, nodes |-> {}]
    /\ pc = "idle"
    /\ state = <<>>
    /\ result = NoResult
    /\ ex = NoFrame
    /\ lastCall = [op |-> "import", raised |-> None]
    /\ log = <<>>
    /\ reset = FALSE
    /\ route = NoRoute
    /\ calls = <<>>
    /\ waiting = NoThread
    /\ steps = <<>>

\* The registry on its own: any sequence of calls on it.
NextRegistry ==
    \/ AgentRegistry_new
    \/ \E cls \in OtherClasses : register_TypeError(cls)
    \/ \E cls \in AgentClasses : register(cls)
    \/ clear
    \/ AgentRegistry_get_all_agents

SpecRegistry == Init /\ [][NextRegistry]_vars

\* The program: the imports register agent classes, each under its own
\* name, build() compiles the graph once, and the callers invoke it and
\* list the agents.
Next ==
    \/ /\ pc = "idle"
       /\ ~app.built
       /\ Len(heap) < MaxRegistered
       /\ \E cls \in AgentClasses : ~agent_exists(name(cls)) /\ register(cls)
    \/ pc = "idle" /\ AgentRegistry_new
    \/ build
    \/ \E user_input \in UserInputs : invoke_not_built(user_input)
    \/ \E user_input \in UserInputs : invoke(user_input)
    \/ route_request_no_agents
    \/ route_request
    \/ route_request_raises
    \/ agent_node
    \/ agent_node_return
    \/ finalize
    \/ execute_step

Spec == Init /\ [][Next]_vars

\* One agent object, constructed directly, and execute called on it.
InitAgent ==
    /\ _instance = FALSE
    /\ _agents = <<>>
    /\ \E cls \in AgentClasses : \E o \in ConstructOutcomes(cls) : heap = <<construct(cls, o)>>
    /\ app = [built |-> FALSE, nodes |-> {}]
    /\ pc = "direct"
    /\ state = <<>>
    /\ result = NoResult
    /\ ex = NoFrame
    /\ lastCall = [op |-> "import", raised |-> None]
    /\ log = <<>>
    /\ reset = FALSE
    /\ route = NoRoute
    /\ calls = <<>>
    /\ waiting = NoThread
    /\ steps = <<>>

NextAgent ==
    \/ \E st \in DirectStates : direct_execute(1, st)
    \/ execute_step

SpecAgent == InitAgent /\ [][NextAgent]_vars

\* ------------------------------------------------ registry and graph

\* build() called on a supervisor that was built before: the graph is
\* compiled again from the registry of that moment.
build_again ==
    /\ pc = "idle"
    /\ app.built
    /\ app' = [built |-> TRUE,
                nodes |-> {get_agent_names[i] : i \in 1..Len(get_agent_names)}]
    /\ UNCHANGED <<registryVars, threadVars, streamVars, heap, pc, state, result, route, ex, calls>>

\* Command(goto=selected_agent_name) when the compiled graph has no node of
\* that name: the graph library either raises to the caller of invoke or
\* ends the run with the state as route_request left it. No agent runs.
goto_missing_node ==
    /\ pc = "no_such_node"
    /\ \/ result' = [raised |-> "graph error", value |-> <<>>]
       \/ result' = [raised |-> None, value |-> state]
    /\ pc' = "idle"
    /\ UNCHANGED <<registryVars, threadVars, streamVars, heap, app, state, route, ex, calls>>

\* A caller of the library: register, clear, build and invoke in any order,
\* one call at a time.
NextLifecycle ==
    \/ /\ pc = "idle"
       /\ Len(heap) < MaxRegistered
       /\ \E cls \in ToolAgentClasses : register(cls)
    \/ pc = "idle" /\ clear
    \/ build
    \/ build_again
    \/ \E user_input \in ThreadInputs : invoke(user_input)
    \/ route_request_no_agents
    \/ route_request
    \/ route_request_raises
    \/ goto_missing_node
    \/ agent_node
    \/ agent_node_return
    \/ finalize
    \/ ToolAgent_llm_invoke
    \/ ToolAgent_tool_call

SpecLifecycle == Init /\ [][NextLifecycle]_vars

\* ------------------------------------------------------ convert_units

\* The values the tool is called with: whole numbers, passed as int or as
\* float.
ToolValues == {[n |-> n, is_float |-> f] : n \in {-40, 0, 37, 100, 212}, f \in BOOLEAN}

\* The unit names the tool is called with. The pairs of metres, feet,
\* kilograms and pounds are not drawn.
Units == {"celsius", "Celsius", "fahrenheit", "FAHRENHEIT", "kelvin"}

\* from_unit.lower()
unit_lower(u) ==
    CASE u = "Celsius" -> "celsius"
      [] u = "FAHRENHEIT" -> "fahrenheit"
      [] OTHER -> u

\* The decimal digits of a natural number.
RECURSIVE nat_str(_)
nat_str(n) ==
    LET digit == <<"0", "1", "2", "3", "4", "5", "6", "7", "8", "9">>
    IN  IF n < 10 THEN digit[n + 1] ELSE nat_str(n \div 10) \o digit[(n % 10) + 1]

\* "{value}" of the f-string: an int prints its digits, a float of a whole
\* number prints them followed by ".0".
format_value(v) ==
    (IF v.n < 0 THEN "-" \o nat_str(-v.n) ELSE nat_str(v.n))
    \o (IF v.is_float THEN ".0" ELSE "")

\* "{result:.2f}" of the f-string, for a result given in hundredths.
format_2f(r) ==
    LET a == IF r < 0 THEN -r ELSE r
    IN  (IF r < 0 THEN "-" ELSE "") \o nat_str(a \div 100) \o "."
        \o nat_str((a \div 10) % 10) \o nat_str(a % 10)

\* conversions[key](value), in hundredths rounded to the nearest:
\* (x * 9/5) + 32 and (x - 32) * 5/9.
conversions(key, x) ==
    IF key = <<"celsius", "fahrenheit">> THEN x * 180 + 3200
    ELSE (2 * (x - 32) * 500 + 9) \div 18

\* convert_units(value, from_unit, to_unit): the text the tool returns.
convert_units(value, from_unit, to_unit) ==
    LET key == <<unit_lower(from_unit), unit_lower(to_unit)>>
    IN  IF key \notin {<<"celsius", "fahrenheit">>, <<"fahrenheit", "celsius">>}
        THEN "Conversion from " \o from_unit \o " to " \o to_unit \o " is not supported."
        ELSE format_value(value) \o " " \o from_unit \o " = "
             \o format_2f(conversions(key, value.n)) \o " " \o to_unit

\* A caller invokes the tool.
convert_units_call ==
    /\ \E value \in ToolValues : \E from_unit \in Units : \E to_unit \in Units :
         calls' = <<[kind |-> "tool", name |-> "convert_units", raised |-> FALSE,
                     value |-> value, from_unit |-> from_unit, to_unit |-> to_unit,
                     result |-> convert_units(value, from_unit, to_unit)]>>
    /\ UNCHANGED <<registryVars, supervisorVars, threadVars, streamVars, heap, ex>>

NextTool == convert_units_call

SpecTool == Init /\ [][NextTool]_vars

\* ------------------------------------------------------- the CLI loop

\* The lines the user may type at the prompt of main.py, as characters.
InputLines ==
    { <<>>,
      <<" ", " ">>,
      <<"/", "h", "e", "l", "p">>,
      <<"/", "H", "E", "L", "P">>,
      <<"/", "a", "g", "e", "n", "t", "s">>,
      <<"/", "c", "l", "e", "a", "r">>,
      <<"/", "e", "x", "i", "t">>,
      <<" ">> \o <<"/", "q", "u", "i", "t">> \o <<" ">>,
      <<"/", "f", "o", "o">>,
      <<"F", "i", "n", "d", " ", "t", "h", "e", " ", "f", "i", "l", "e">>,
      <<" ">> \o <<"F", "i", "n", "d", " ", "t", "h", "e", " ", "f", "i", "l", "e">> \o <<" ", " ">> }

\* The text of a sequence of characters.
str_of(s) ==
    CASE s = <<"F", "i", "n", "d", " ", "t", "h", "e", " ", "f", "i", "l", "e">> -> "Find the file"
      [] s = <<"/", "f", "o", "o">> -> "/foo"

\* A test that takes only the four known commands for commands: not the
\* code's, kept for comparison.
is_known_command(user_input) ==
    chars_lower(user_input) \in {<<"/", "h", "e", "l", "p">>, <<"/", "a", "g", "e", "n", "t", "s">>, <<"/", "c", "l", "e", "a", "r">>, <<"/", "e", "x", "i", "t">>, <<"/", "q", "u", "i", "t">>}

\* user_input.startswith("/")
startswith_slash(user_input) == user_input # <<>> /\ user_input[1] = "/"

\* list_agents(): it constructs AgentRegistry() and prints the agents it
\* then holds.
list_agents == AgentRegistry_new

\* One turn of the loop of main() on the line the user typed: strip it,
\* skip it when empty, handle a command, or hand the text to
\* supervisor.invoke.
main_loop(line) ==
    /\ pc = "idle"
    /\ app.built
    /\ LET user_input == chars_strip(line)
           command == chars_lower(user_input)
       IN  IF user_input = <<>> THEN UNCHANGED vars
           ELSE IF startswith_slash(user_input)
           THEN IF command = <<"/", "e", "x", "i", "t">> \/ command = <<"/", "q", "u", "i", "t">>
                THEN /\ pc' = "exited"
                     /\ UNCHANGED <<registryVars, threadVars, streamVars, heap, app, state,
                                    result, route, ex, calls>>
                ELSE IF command = <<"/", "a", "g", "e", "n", "t", "s">> THEN list_agents
                ELSE UNCHANGED vars
           ELSE invoke(str_of(user_input))

\* main(): the agents are registered by the imports, the graph is built,
\* and the loop reads lines until /exit.
NextMain ==
    \/ /\ pc = "idle"
       /\ ~app.built
       /\ heap = <<>>
       /\ register("FileOperationsAgent")
    \/ build
    \/ \E line \in InputLines : main_loop(line)
    \/ route_request_no_agents
    \/ route_request
    \/ route_request_raises
    \/ agent_node
    \/ agent_node_return
    \/ finalize
    \/ ToolAgent_llm_invoke
    \/ ToolAgent_tool_call

SpecMain == Init /\ [][NextMain]_vars

\* ----------------------------------------------------- HTTP streaming

\* str.split() on the output texts of the HTTP server's requests: the words
\* between runs of whitespace.
str_split(text) ==
    CASE text = "Weather service is currently unavailable. Please ensure mcp_weather_server is installed: pip install mcp-weather-server" ->
            <<"Weather", "service", "is", "currently", "unavailable.",
              "Please", "ensure", "mcp_weather_server", "is", "installed:",
              "pip", "install", "mcp-weather-server">>
      [] text = "I need more specific information about what weather data you're looking for. Please specify a city or location." ->
            <<"I", "need", "more", "specific", "information", "about",
              "what", "weather", "data", "you're", "looking", "for.",
              "Please", "specify", "a", "city", "or", "location.">>
      [] text = "Which city?" ->
            <<"Which", "city?">>
      [] text = "which city?" ->
            <<"which", "city?">>
      [] text = "no calls key" ->
            <<"no", "calls", "key">>
      [] text = "braces" ->
            <<"braces">>
      [] text = "model text" ->
            <<"model", "text">>
      [] text = "Error in Weather Agent: connection error" ->
            <<"Error", "in", "Weather", "Agent:", "connection", "error">>
      [] text = "Error in Weather Agent: 'list' object has no attribute 'get'" ->
            <<"Error", "in", "Weather", "Agent:", "'list'", "object", "has",
              "no", "attribute", "'get'">>
      [] text = "Error: No agents are registered in the system." ->
            <<"Error:", "No", "agents", "are", "registered", "in", "the",
              "system.">>

\* The chunk of the except handler of generate_stream_text (lines 207-209).
stream_error_chunks(e) == <<"Error: " \o e>>

\* The chunks generate_stream_text yields for what supervisor.invoke
\* returned or raised: the sentinel line, then every word with a blank
\* after it; or the error text alone.
generate_stream_text(r) ==
    IF r.raised # None THEN stream_error_chunks(r.raised)
    ELSE LET agent_name_ == r.value.current_agent
             words == str_split(r.value.agent_output)
         IN  <<"__AGENT__:" \o agent_name_ \o "\n">>
             \o [i \in 1..Len(words) |-> words[i] \o " "]

\* A caller that registers the file agent (or nothing), builds the graph
\* and iterates stream(...) to its end, request after request.
NextStream ==
    \/ /\ pc = "idle"
       /\ ~app.built
       /\ heap = <<>>
       /\ register("FileOperationsAgent")
    \/ build
    \/ \E user_input \in UserInputs : stream(user_input)
    \/ route_request_no_agents
    \/ route_request
    \/ route_request_raises
    \/ agent_node
    \/ agent_node_return
    \/ finalize
    \/ ToolAgent_llm_invoke
    \/ ToolAgent_tool_call

SpecStream == Init /\ [][NextStream]_vars

\* The HTTP server: the weather agent is registered and the graph built at
\* startup, then two chat requests with thread ids of their own run in two
\* worker threads, one invoke each.
NextThreads ==
    \/ /\ pc = "idle"
       /\ ~app.built
       /\ heap = <<>>
       /\ register("WeatherAgent")
    \/ build
    \/ \E user_input \in ThreadInputs : state = <<>> /\ invoke(user_input)
    \/ route_request
    \/ route_request_raises
    \/ agent_node
    \/ agent_node_return
    \/ finalize
    \/ WeatherAgent_load
    \/ WeatherAgent_reasoning
    \/ WeatherAgent_mcp_tool
    \/ WeatherAgent_final
    \/ switch

SpecThreads == Init /\ [][NextThreads]_vars

\* ------------------------------------------------- registry properties

\* The names of the register calls so far are pairwise distinct.
log_names_distinct ==
    \A i, j \in 1..Len(log) : i # j => log[i].name # log[j].name

C2_duplicate_rejected ==
    [][(Len(log') = Len(log) + 1 /\ agent_exists(log'[Len(log')].name)) =>
          /\ lastCall'.raised = "ValueError"
          /\ _agents' = _agents
          /\ dict_get(_agents', log'[Len(log')].name) = get_agent(log'[Len(log')].name)
          /\ get_all_agents' = get_all_agents]_vars

\* A register call has just been refused as a duplicate, with two agents
\* in the registry.
C2_witness ==
    /\ lastCall.op = "register"
    /\ lastCall.raised = "ValueError"
    /\ Len(_agents) = 2
    /\ dict_get(_agents, lastCall.name) # lastCall.agent

\* C3: no step other than clear() removes an entry from the registry; in
\* particular constructing AgentRegistry() leaves the registered agents
\* as they were.
C3_never_removed ==
    [][lastCall'.op # "clear" =>
          \A i \in 1..Len(_agents) :
              dict_get(_agents', _agents[i].key) = _agents[i].agent]_vars


\* -------------------------------------------------- routing properties

no_agents_output == "Error: No agents are registered in the system."

\* C4: a request routed on an empty registry gets the no-agents error as
\* its output, goes straight to finalization, and neither the routing model
\* nor any agent's execute is invoked for it.
C4_empty_registry ==
    (route.routed /\ route.agents = <<>>) =>
        /\ ~route.llm
        /\ calls = <<>>
        /\ ex.phase = "none"
        /\ state.agent_output = no_agents_output
        /\ state.task_complete
        /\ state.current_agent = None
        /\ pc \in {"finalize", "idle"}
        /\ pc = "idle" =>
             /\ result.raised = None
             /\ result.value.agent_output = no_agents_output

\* A request answered with the no-agents error although the graph was
\* built with agent nodes.
C4_witness ==
    /\ route.routed
    /\ route.agents = <<>>
    /\ pc = "idle"
    /\ app.nodes # {}
    /\ result.value.agent_output = no_agents_output

\* Agent i of the list has the highest score for the request, and every
\* agent before it has a lower one.
is_earliest_best(agents, i, user_input) ==
    /\ \A j \in 1..Len(agents) :
         can_handle(agents[j], user_input) <= can_handle(agents[i], user_input)
    /\ \A j \in 1..(i - 1) :
         can_handle(agents[j], user_input) < can_handle(agents[i], user_input)

\* C5: when the model's answer is not a registered name and the registry
\* is not empty, routing selects the agent with the highest can_handle
\* score for the request, the earliest registered among those that share it.
C5_fallback_highest_score ==
    (route.routed /\ route.llm /\ route.fallback) =>
        /\ \E i \in 1..Len(route.agents) :
             /\ is_earliest_best(route.agents, i, route.user_input)
             /\ route.selected = agent_name(route.agents[i])
        /\ state.current_agent = route.selected
        /\ pc = route.selected

\* The fallback has chosen the first of two agents of equal score.
C5_witness ==
    /\ route.routed
    /\ route.llm
    /\ route.fallback
    /\ Len(route.agents) = 2
    /\ can_handle(route.agents[1], route.user_input)
         = can_handle(route.agents[2], route.user_input)
    /\ route.selected = agent_name(route.agents[1])
    /\ route.selected = "research"

\* The answer is the name n up to letter case and surrounding whitespace.
is_name_ignoring_case_and_space(content, n) ==
    \E i \in 1..(Len(content) + 1) : \E j \in (i - 1)..Len(content) :
        /\ \A k \in 1..(i - 1) : content[k] \in WhitespaceChars
        /\ \A k \in (j + 1)..Len(content) : content[k] \in WhitespaceChars
        /\ j - i + 1 = Len(chars(n))
        /\ \A k \in 1..Len(chars(n)) :
             char_lower(content[i + k - 1]) = char_lower(chars(n)[k])

\* C6: an answer that is a registered name up to letter case and
\* surrounding whitespace selects that name without the can_handle
\* fallback; any other answer takes the fallback.
C6_case_insensitive_match ==
    (route.routed /\ route.llm) =>
        /\ \A i \in 1..Len(route.agents) :
             is_name_ignoring_case_and_space(route.content, agent_name(route.agents[i]))
                => (route.selected = agent_name(route.agents[i]) /\ ~route.fallback)
        /\ (\A i \in 1..Len(route.agents) :
              ~is_name_ignoring_case_and_space(route.content,
                                               agent_name(route.agents[i])))
                => route.fallback

\* The answer " MATH" followed by a newline has selected math, registered
\* second, for a request the first agent scores higher on.
C6_witness ==
    /\ route.routed
    /\ route.llm
    /\ route.content = <<" ", "M", "A", "T", "H", "\n">>
    /\ route.selected = "math"
    /\ ~route.fallback
    /\ Len(route.agents) = 2
    /\ can_handle(route.agents[1], route.user_input)
         > can_handle(route.agents[2], route.user_input)


\* ---------------------------------------------------- agent properties

\* The model invocations of the execute call in progress.
llm_count == Cardinality({i \in 1..Len(calls) : calls[i].kind = "llm"})

\* The model responses of the call so far that asked for tools.
tool_pass_count ==
    Cardinality({i \in 1..Len(ex.messages) :
                    "tool_calls" \in DOMAIN ex.messages[i]})

\* C7: whatever the model answers, the loop of a tool-calling agent makes
\* at most 5 model invocations and ends; when all 5 responses asked for
\* tools the output is the fixed maximum-iterations message, with nothing
\* of a model response or a tool result in it.
C7_loop_ceiling ==
    (ex.phase # "none" /\ heap[ex.agent].cls \in ToolAgentClasses) =>
        /\ llm_count <= 5
        /\ ex.phase = "llm" => llm_count <= 4
        /\ (tool_pass_count = 5 /\ ex.phase \notin {"llm", "tool"}
              /\ \A i \in 1..Len(calls) : ~calls[i].raised) =>
             /\ ex.phase = "returned"
             /\ ex.ret =
                  [agent_output |->
                      IF heap[ex.agent].cls = "FileOperationsAgent"
                      THEN "Task execution reached maximum iterations. Please try breaking down your request."
                      ELSE "Research execution reached maximum iterations. Please try breaking down your question.",
                   current_agent |-> agent_name(ex.agent)]

\* The research agent has returned after five responses that all asked
\* for tools.
C7_witness ==
    /\ ex.phase = "returned"
    /\ heap[ex.agent].cls = "ResearchAgent"
    /\ llm_count = 5
    /\ tool_pass_count = 5
    /\ \A i \in 1..Len(calls) : ~calls[i].raised
    /\ ex.ret.agent_output = max_iterations_output("ResearchAgent")

\* C8: when the tool call being handled names a tool outside the agent's
\* bound tools, no tool is invoked, the message "Error: Tool '<name>' not
\* found" with that call's id is appended to the messages, the next tool
\* call of the same response is handled next, and after the last one the
\* loop goes on to the next model invocation (unless that pass was the
\* fifth).
C8_unknown_tool ==
    [][(/\ ex.phase = "tool"
        /\ ex' # ex
        /\ \A i \in 1..Len(get_tools(heap[ex.agent].cls)) :
              get_tools(heap[ex.agent].cls)[i] # ex.pending[ex.k].name) =>
          /\ calls' = calls
          /\ ex'.messages =
               Append(ex.messages,
                      [role |-> "tool",
                       content |-> "Error: Tool '" \o ex.pending[ex.k].name \o "' not found",
                       tool_call_id |-> ex.pending[ex.k].id,
                       name |-> ex.pending[ex.k].name])
          /\ IF ex.k < Len(ex.pending)
             THEN ex'.phase = "tool" /\ ex'.k = ex.k + 1 /\ ex'.pending = ex.pending
             ELSE IF ex.iteration < 4
             THEN ex'.phase = "llm" /\ ex'.iteration = ex.iteration + 1
             ELSE ex'.phase = "returned"]_vars

\* The messages hold the not-found message of call_2, then the result of
\* call_3 of the same response, and the next model invocation is due.
C8_witness ==
    /\ ex.phase = "llm"
    /\ ex.iteration = 1
    /\ Len(ex.messages) = 5
    /\ ex.messages[4] = [role |-> "tool",
                         content |-> "Error: Tool 'rename_file' not found",
                         tool_call_id |-> "call_2", name |-> "rename_file"]
    /\ ex.messages[5].tool_call_id = "call_3"
    /\ ex.messages[5].content = "tool result"
    /\ Len(calls) = 2

\* C9: execute of any of the four agents on a state whose user_input is
\* empty or missing returns "Error: No user input provided." with the
\* agent's own name, without any model, tool or tool-provider invocation.
C9_no_user_input ==
    (ex.phase # "none" /\ ex.user_input \in {"", None}) =>
        /\ ex.phase = "returned"
        /\ ex.ret = [agent_output |-> "Error: No user input provided.",
                     current_agent |-> name(heap[ex.agent].cls)]
        /\ calls = <<>>

\* The weather agent, its tools loaded, has answered a state without input.
C9_witness ==
    /\ ex.phase = "returned"
    /\ ex.user_input = ""
    /\ heap[ex.agent].cls = "WeatherAgent"
    /\ heap[ex.agent].available_tools # <<>>
    /\ ex.ret.agent_output = "Error: No user input provided."
    /\ ex.ret.current_agent = "weather"

\* C10: when a model or tool invocation of execute raises, execute returns
\* an update of the agent's error text and the agent's name, and that
\* invocation is the last one of the call.
C10_exception_caught ==
    \A i \in 1..Len(calls) :
        calls[i].raised =>
            /\ i = Len(calls)
            /\ ex.phase = "returned"
            /\ DOMAIN ex.ret = {"agent_output", "current_agent"}
            /\ ex.ret.current_agent = name(heap[ex.agent].cls)
            /\ ex.ret.agent_output = error_prefix(heap[ex.agent].cls) \o "connection error"

\* A tool invocation of the second pass has raised and execute has returned.
C10_witness ==
    /\ Len(calls) = 4
    /\ calls[4].raised
    /\ calls[4].kind = "tool"
    /\ ex.phase = "returned"
    /\ ex.ret.agent_output = "Error in File Operations Agent: connection error"


\* ----------------------------------------------- supervisor properties

\* C11: invoke never raises to its caller: every step that ends a request
\* of the built graph hands back a final state whose agent_output is a
\* text.
C11_invoke_never_raises ==
    [][(pc # "idle" /\ pc' = "idle") =>
          /\ result'.raised = None
          /\ "agent_output" \in DOMAIN result'.value
          /\ result'.value.agent_output # None]_vars


\* The step starts an agent's execute.
execute_starts ==
    /\ Len(calls') = Len(calls) + 1
    /\ calls'[Len(calls')].kind = "execute"

\* An execute starts only after the routing step of the request, for the
\* agent routing selected, and no other execute has run for the request.
C12_execute_after_routing ==
    [][execute_starts =>
          /\ route.routed
          /\ route.llm
          /\ pc = route.selected
          /\ calls'[Len(calls')].name = route.selected
          /\ \A i \in 1..Len(calls) : calls[i].kind # "execute"]_vars

\* Finalization is entered from the routing step or from the agent node,
\* and once it has run nothing more runs for the request.
C12_finalized_last ==
    [][/\ (pc # "finalize" /\ pc' = "finalize") =>
             (pc = "route_request" \/ pc \in app.nodes)
       /\ pc = "finalize" => (pc' = "idle" /\ calls' = calls /\ ex' = ex
                                /\ state' = state /\ ex.phase = "none")
       /\ pc = "idle" => (pc' \in {"idle", "route_request"} /\ ex.phase = "none")]_vars

\* A request ends only by its finalization.
C12_ends_finalized ==
    [][(pc # "idle" /\ pc' = "idle") => pc = "finalize"]_vars

\* C12: each request goes routing, executing, finalized: no execute starts
\* before the routing step has completed, at most one agent executes and it
\* is the one routing selected, finalization is entered exactly once, after
\* the agent or directly after the routing step, and nothing runs for the
\* request after it.
C12_request_phases ==
    /\ C12_execute_after_routing
    /\ C12_finalized_last
    /\ C12_ends_finalized


\* C13: within a request task_complete, once true, is not set back to
\* false by any later step, whatever the agent's update holds (also a
\* task_complete of its own), and every request that enters finalization
\* has task_complete true.
C13_task_complete_kept ==
    [][/\ (pc # "idle" /\ state.task_complete) => state'.task_complete
       /\ pc' = "finalize" => state'.task_complete
       /\ \A tc \in {TRUE, FALSE} :
            agent_node_update([agent_output |-> "text", current_agent |-> "math",
                               task_complete |-> tc]).task_complete]_vars

\* A request the research agent answered stands at finalization, complete.
C13_witness ==
    /\ pc = "finalize"
    /\ state.task_complete
    /\ state.current_agent = "research"
    /\ state.agent_output = "model text"


\* C14: invoke calls with the same thread id share conversation history:
\* what the thread's checkpoint holds after request k (the messages, and
\* the exchange of request k: its input and its output) is still present
\* in the state request k+1 with that thread id works on.
C14_history_shared ==
    [][(pc = "idle" /\ pc' = "route_request" /\ checkpoint # <<>>) =>
          /\ Len(checkpoint.messages) <= Len(state'.messages)
          /\ \A i \in 1..Len(checkpoint.messages) :
               state'.messages[i] = checkpoint.messages[i]
          /\ checkpoint.agent_output # None =>
               \/ state'.agent_output = checkpoint.agent_output
               \/ \E i \in 1..Len(state'.messages) :
                    state'.messages[i].content = checkpoint.agent_output]_vars


\* --------------------------------------------- weather agent properties

\* C15: the name and the capabilities an agent shows after construction
\* never change, whatever execute calls run and whatever the tool provider
\* answers.
C15_metadata_immutable ==
    [][\A a \in 1..Len(heap) :
          /\ name(heap'[a].cls) = name(heap[a].cls)
          /\ capabilities(heap'[a]).value = capabilities(heap[a]).value]_vars

\* The weather agent's model has just answered its reasoning call with the
\* text t.
reasoning_answered(t) ==
    /\ ex.phase = "reasoning"
    /\ calls' = Append(calls, [kind |-> "llm", name |-> "weather", raised |-> FALSE,
                               content |-> t.raw])

\* The tokens u are a JSON object.
is_json_object(u) == u # <<>> /\ json_loads(u, <<>>).kind = "dict"

\* One of the three stages (the whole text, the fenced block, the
\* brace-delimited substring) yields a JSON object.
some_stage_yields_object(t) ==
    \/ is_json_object(t.tokens)
    \/ is_json_object(search_fenced(t.tokens))
    \/ is_json_object(search_braces(t.tokens))

\* execute goes on with the members data of a parsed object: it returns
\* the reasoning when there is no tool call, and turns to the first tool
\* call otherwise.
goes_on_with(data) ==
    LET tool_calls == IF "tool_calls" \in DOMAIN data THEN data.tool_calls ELSE <<>>
    IN  IF tool_calls = <<>>
        THEN /\ ex'.phase = "returned"
             /\ ex'.ret.agent_output =
                    (IF "reasoning" \in DOMAIN data THEN data.reasoning ELSE "")
        ELSE /\ ex'.phase = "mcp_tool"
             /\ ex'.pending = tool_calls

\* C16 (as stated): when no stage yields a JSON object, execute returns
\* exactly the raw model text and calls no tool.
C16_raw_text_fallback ==
    [][\A t \in ReasoningTexts :
          (reasoning_answered(t) /\ ~some_stage_yields_object(t)) =>
             /\ ex'.phase = "returned"
             /\ ex'.ret.agent_output = t.raw
             /\ ex'.ret.current_agent = "weather"]_vars

\* C16 (amended): the text is parsed directly; only when that parse raises
\* JSONDecodeError is a substring searched, the fenced block first and the
\* brace-delimited substring only when no fenced block is found. A found
\* substring that parses is used; one that does not parse ends the call
\* with the clarification request; only when no substring is found is the
\* raw text returned. A direct parse that gives JSON other than an object
\* ends the call with the agent's error text. No tool is called in any of
\* the three endings.
C16_parse_chain ==
    [][\A t \in ReasoningTexts :
          reasoning_answered(t) =>
             LET direct == json_loads(t.tokens, t.data)
                 fenced == search_fenced(t.tokens)
                 found == IF fenced # <<>> THEN fenced ELSE search_braces(t.tokens)
             IN  /\ ex'.phase \in {"returned", "mcp_tool"}
                 /\ ex'.phase = "returned" => ex'.ret.current_agent = "weather"
                 /\ IF direct.kind = "dict" THEN goes_on_with(direct.value)
                    ELSE IF direct.kind # JSONDecodeError
                    THEN /\ ex'.phase = "returned"
                         /\ ex'.ret.agent_output =
                               "Error in Weather Agent: 'list' object has no attribute 'get'"
                    ELSE IF found = <<>>
                    THEN /\ ex'.phase = "returned"
                         /\ ex'.ret.agent_output = t.raw
                    ELSE IF is_json_object(found) THEN goes_on_with(t.data)
                    ELSE /\ ex'.phase = "returned"
                         /\ ex'.ret.agent_output = clarify_output]_vars

\* The model has answered with a text whose only braces hold no JSON, and
\* execute has returned the clarification request without a tool call.
C16_witness ==
    /\ ex.phase = "returned"
    /\ Len(calls) = 2
    /\ calls[2].kind = "llm"
    /\ ~calls[2].raised
    /\ calls[2].content = "Use{city}"
    /\ ex.ret.agent_output = clarify_output
    /\ ex.ret.current_agent = "weather"

\* The reasoning text whose raw text is content.
text_of(content) == CHOOSE t \in ReasoningTexts : t.raw = content

\* The tokens of the JSON object the parse of t takes its data from, or
\* <<>> when it takes none.
object_tokens(t) ==
    LET fenced == search_fenced(t.tokens)
        found == IF fenced # <<>> THEN fenced ELSE search_braces(t.tokens)
    IN  IF is_json_object(t.tokens) THEN t.tokens
        ELSE IF json_loads(t.tokens, t.data).kind = JSONDecodeError /\ is_json_object(found)
        THEN found
        ELSE <<>>

\* The response t parses to an object whose tool_calls is empty or absent.
has_no_tool_calls(t) ==
    /\ object_tokens(t) # <<>>
    /\ LET data == json_loads(object_tokens(t), t.data).value
       IN  "tool_calls" \in DOMAIN data => data.tool_calls = <<>>

\* The reasoning of the parsed response t, "" when it has none.
reasoning_of(t) ==
    LET data == json_loads(object_tokens(t), t.data).value
    IN  IF "reasoning" \in DOMAIN data THEN data.reasoning ELSE ""

\* C17: when the parsed response of the weather agent's model has an empty
\* or absent tool_calls list, that model call is the last call execute
\* makes (no tool-provider tool, no second model call) and execute returns
\* the response's reasoning as agent_output with current_agent "weather"
\* and nothing else, which is no error text.
C17_no_tool_calls_returns_reasoning ==
    \A i \in 1..Len(calls) :
        (/\ calls[i].kind = "llm"
         /\ ~calls[i].raised
         /\ "content" \in DOMAIN calls[i]
         /\ has_no_tool_calls(text_of(calls[i].content))) =>
            /\ i = Len(calls)
            /\ \A k \in 1..Len(calls) : calls[k].kind # "mcp_tool"
            /\ Cardinality({k \in 1..Len(calls) : calls[k].kind = "llm"}) = 1
            /\ ex.phase = "returned"
            /\ ex.ret = [agent_output |-> reasoning_of(text_of(calls[i].content)),
                         current_agent |-> "weather"]
            /\ ex.ret.agent_output \notin
                  {error_prefix("WeatherAgent") \o e :
                      e \in Exceptions \cup {"'list' object has no attribute 'get'"}}
                  \cup {unavailable_output, clarify_output}

\* The model has answered with an object that has no tool_calls key, and
\* execute has returned its reasoning.
C17_witness ==
    /\ ex.phase = "returned"
    /\ Len(calls) = 2
    /\ calls[2].kind = "llm"
    /\ "content" \in DOMAIN calls[2]
    /\ calls[2].content = "{reasoning: no calls key}"
    /\ ex.ret.agent_output = "no calls key"
    /\ ex.ret.current_agent = "weather"

\* C18: a tool provider that cannot be reached never makes the weather
\* agent raise. The constructor ends with an agent that has no tools and
\* the default capability. An execute whose tool list cannot be loaded
\* makes no model call and returns the degraded-service text. An execute
\* whose tool call cannot connect returns the agent's error text at once;
\* one whose tool call fails after connecting carries the failure as the
\* tool's result text and goes on.
C18_provider_failure_no_crash ==
    /\ \A o \in McpOutcomes(McpToolLists, <<>>) :
          o.call = "error" =>
             /\ construct("WeatherAgent", o).available_tools = <<>>
             /\ construct("WeatherAgent", o)._capabilities_cache = <<"weather information">>
    /\ \A i \in 1..Len(calls) :
          (calls[i].kind = "mcp_list_tools" /\ calls[i].failed) =>
             /\ Len(calls) = 1
             /\ ~calls[i].raised
             /\ ex.phase = "returned"
             /\ ex.ret = [agent_output |-> unavailable_output, current_agent |-> "weather"]
    /\ \A i \in 1..Len(calls) :
          (calls[i].kind = "mcp_tool" /\ calls[i].failed) =>
             IF calls[i].raised
             THEN /\ i = Len(calls)
                  /\ ex.phase = "returned"
                  /\ ex.ret = [agent_output |-> "Error in Weather Agent: connection error",
                               current_agent |-> "weather"]
             ELSE /\ ex.phase \in {"mcp_tool", "final_llm", "returned"}
                  /\ ex.results[i - 2] =
                        [tool |-> calls[i].name,
                         result |-> "Error calling tool " \o calls[i].name \o ": call failed"]

\* The tool list could not be loaded and execute has returned the
\* degraded-service text.
C18_witness ==
    /\ Len(calls) = 1
    /\ calls[1].kind = "mcp_list_tools"
    /\ calls[1].failed
    /\ heap[1].cls = "WeatherAgent"
    /\ ex.phase = "returned"
    /\ ex.ret.agent_output = unavailable_output

\* --------------------------------------------- worker thread properties

\* The next step of the execute call of request t reads or writes the
\* fields of agent object a: _load_mcp_tools and execute_tool_call both
\* test and set the connection of the object's tool-provider client, and
\* _load_mcp_tools sets the object's tool list and capabilities cache.
accesses(t, a) ==
    /\ t.ex.agent = a
    /\ t.ex.phase \in {"load_mcp_tools", "mcp_tool"}

\* C19: two requests with thread ids of their own, in flight at once in two
\* worker threads, share no mutable state: no step of the running request
\* changes an agent object that the next step of the other request reads
\* or writes.
C19_requests_share_no_state ==
    [][\A a \in 1..Len(heap) :
          (in_flight(running) /\ in_flight(waiting) /\ accesses(waiting, a)) =>
             heap'[a] = heap[a]]_vars

\* ------------------------------------------------- routing properties

\* The confidence scores an agent's can_handle may return, in hundredths.
ScoreValues == {0, 30, 90}

\* The name n is a key of the registry.
is_registered(n) == \E i \in 1..Len(_agents) : _agents[i].key = n

\* _route_request has just made its choice on a registry that is not empty.
routing_chooses == pc = "route_request" /\ route'.routed /\ route'.llm

\* C20: routing on a non-empty registry selects one name, a registered
\* one, whether the model's answer is taken or the confidence scores are
\* used, and the graph goes to that agent's node; the confidence scores
\* give a position in the list of agents whatever the scores are, the
\* first when all are 0; and an agent node never finds its agent missing.
C20_routes_to_registered ==
    /\ \A n \in 1..MaxInst : \A scores \in [1..n -> ScoreValues] :
          /\ fallback_index(scores) \in 1..n
          /\ (\A i \in 1..n : scores[i] = 0) => fallback_index(scores) = 1
    /\ [][routing_chooses =>
            /\ is_registered(route'.selected)
            /\ state'.current_agent = route'.selected
            /\ pc' = route'.selected
            /\ route'.fallback =>
                  route'.selected =
                     agent_name(route'.agents[fallback_index(
                        [i \in 1..Len(route'.agents) |->
                            can_handle(route'.agents[i], route'.user_input)])])]_vars
    /\ [][(pc \in app.nodes /\ ex.phase = "none" /\ pc' # pc) =>
            /\ FALSE]_vars
    /\ [][pc' = "finalize" =>
            \A n \in {"file_operations", "research", "weather", "math"} :
               state'.agent_output # agent_not_found_update(n).agent_output]_vars

\* Two agents are registered, the model's answer was no name, and the graph
\* stands at the node of the agent the confidence scores selected.
C20_witness ==
    /\ Len(_agents) = 2
    /\ route.routed
    /\ route.fallback
    /\ is_registered(route.selected)
    /\ pc = route.selected

\* ------------------------------------------------- request properties

\* C21: every invoke that returns hands back a final state whose
\* agent_output is a text and whose current_agent is the name of the agent
\* that handled the request: the one whose execute the request called.
C21_final_state_names_agent ==
    [][(pc = "finalize" /\ pc' = "idle") =>
          /\ result'.raised = None
          /\ result'.value.agent_output # None
          /\ result'.value.current_agent # None
          /\ \E i \in 1..Len(calls) :
                /\ calls[i].kind = "execute"
                /\ calls[i].name = result'.value.current_agent]_vars

\* --------------------------------------------------- stream properties

\* The state after the first k updates of the sequence ss, from state st.
RECURSIVE apply_steps(_, _, _)
apply_steps(st, ss, k) ==
    IF k = 0 THEN st ELSE apply_update(apply_steps(st, ss, k - 1), ss[k].update)

\* C22: stream runs the computation of invoke. Every call starts from the
\* initial state invoke builds, with nothing yielded; every event is the
\* update of the node that has just ended; a call that ends has yielded
\* the routing update, then the update of the selected agent (none when
\* the registry is empty), then the finalize update, and these updates
\* applied in order to invoke's initial state give the final state of the
\* graph, which is what invoke returns.
C22_stream_equals_invoke ==
    /\ [][(pc = "idle" /\ pc' = "route_request") =>
            /\ steps' = <<>>
            /\ \E user_input \in UserInputs : state' = initial_state(user_input)]_vars
    /\ [][(steps' # steps /\ steps' # <<>>) =>
            /\ Len(steps') = Len(steps) + 1
            /\ SubSeq(steps', 1, Len(steps)) = steps
            /\ state' = apply_update(state, steps'[Len(steps')].update)]_vars
    /\ [][(pc = "finalize" /\ pc' = "idle") =>
            /\ result'.raised = None
            /\ apply_steps(initial_state(state.user_input), steps', Len(steps'))
                  = result'.value
            /\ IF get_all_agents = <<>>
               THEN [i \in 1..Len(steps') |-> steps'[i].node] = <<"route_request", "finalize">>
               ELSE [i \in 1..Len(steps') |-> steps'[i].node]
                       = <<"route_request", state.current_agent, "finalize">>]_vars

\* A stream call has ended after the events of routing, the file agent and
\* finalize.
C22_witness ==
    /\ pc = "idle"
    /\ Len(steps) = 3
    /\ steps[1].node = "route_request"
    /\ steps[2].node = "file_operations"
    /\ steps[3].node = "finalize"
    /\ result.value.current_agent = "file_operations"
    /\ result.value.task_complete

\* ------------------------------------------- HTTP streaming properties

\* The running thread's invoke has just returned or raised.
invoke_ends == in_flight(running) /\ pc' = "idle" /\ waiting' = waiting

\* C23: the first chunk of every /stream response is the sentinel line
\* that names the agent which handled the request, and the chunks after it
\* are the words of the response, in their order.
C23_sentinel_first ==
    [][invoke_ends =>
          LET chunks == generate_stream_text(result')
          IN  /\ \E i \in 1..Len(calls') :
                    /\ calls'[i].kind = "execute"
                    /\ chunks[1] = "__AGENT__:" \o calls'[i].name \o "\n"
              /\ result'.raised = None
              /\ Tail(chunks) =
                    [i \in 1..Len(str_split(result'.value.agent_output)) |->
                        str_split(result'.value.agent_output)[i] \o " "]]_vars

\* ------------------------------------------------ CLI loop properties

\* The line begins with "/".
begins_with_slash(line) == line # <<>> /\ line[1] = "/"

\* C24: a turn of the CLI loop on a line that begins with "/" leaves the
\* supervisor alone: no request is started, and the graph state, the
\* result, the routing decision, the agent frame and the model, tool and
\* agent calls stay as they were. A request is started only by a turn on a
\* line that is not empty and does not begin with "/".
C24_commands_handled_locally ==
    /\ [][\A line \in InputLines :
            (main_loop(line) /\ begins_with_slash(line)) =>
               /\ pc' \in {"idle", "exited"}
               /\ UNCHANGED <<state, result, route, ex, calls, steps, heap, app>>]_vars
    /\ [][(pc = "idle" /\ pc' = "route_request") =>
            \E line \in InputLines :
               /\ line # <<>>
               /\ ~begins_with_slash(line)
               /\ main_loop(line)]_vars
    /\ [][(calls' # calls \/ route' # route \/ ex' # ex) => pc \notin {"idle", "exited"}
                                                           \/ pc' = "route_request"]_vars

\* The user has typed /agents after a request was answered: the registry
\* object exists, and the answer of the request is still the last result.
C24_witness ==
    /\ pc = "idle"
    /\ _instance
    /\ lastCall.op = "AgentRegistry"
    /\ result.raised = None
    /\ result.value # <<>>
    /\ Len(steps) = 3

\* ------------------------------------------------ registry properties

C26_celsius_to_fahrenheit ==
    \A i \in 1..Len(calls) :
        (/\ calls[i].kind = "tool"
         /\ calls[i].name = "convert_units"
         /\ calls[i].from_unit = "celsius"
         /\ calls[i].to_unit = "fahrenheit") =>
            /\ calls[i].result = convert_units(calls[i].value, "celsius", "fahrenheit")
            /\ conversions(<<"celsius", "fahrenheit">>, calls[i].value.n) * 5
                  = (calls[i].value.n * 9 + 32 * 5) * 100
            /\ calls[i].value.n = 100 => calls[i].result = "100°C = 212.00°F"

\* The position of the last model response in a message list.
last_response(messages) ==
    CHOOSE p \in 1..Len(messages) :
        /\ "tool_calls" \in DOMAIN messages[p]
        /\ \A q \in (p + 1)..Len(messages) : "tool_calls" \notin DOMAIN messages[q]

\* message is the tool message of tool_call for an agent of class cls: the
\* call's id and name, and the tool's result or the not-found error.
answers(cls, message, tool_call) ==
    /\ DOMAIN message = {"role", "content", "tool_call_id", "name"}
    /\ message.role = "tool"
    /\ message.tool_call_id = tool_call.id
    /\ message.name = tool_call.name
    /\ IF \E i \in 1..Len(get_tools(cls)) : get_tools(cls)[i] = tool_call.name
       THEN message.content \in ToolResults
       ELSE message.content = "Error: Tool '" \o tool_call.name \o "' not found"

\* The number of entries of a kind in the log of calls.
RECURSIVE count_calls(_, _)
count_calls(kind, k) ==
    IF k = 0 THEN 0
    ELSE count_calls(kind, k - 1) + (IF calls[k].kind = kind THEN 1 ELSE 0)

\* C27: when a tool-calling agent is about to invoke the model again, the
\* message list ends with the previous model response followed by exactly
\* one tool message per call of that response, in the order of the
\* response, each with the call's id and the tool's result or the
\* not-found error; the k-th response has been followed by no model
\* invocation before that.
C27_tool_loop_sequential ==
    (/\ ex.phase = "llm"
     /\ ex.iteration >= 1
     /\ heap[ex.agent].cls \in ToolAgentClasses) =>
        LET messages == ex.messages
            p == last_response(messages)
            tool_calls == messages[p].tool_calls
        IN  /\ \E q \in 1..Len(messages) : "tool_calls" \in DOMAIN messages[q]
            /\ tool_calls # <<>>
            /\ Len(messages) = p + Len(tool_calls)
            /\ \A j \in 1..Len(tool_calls) :
                  answers(heap[ex.agent].cls, messages[p + j], tool_calls[j])
            /\ count_calls("llm", Len(calls)) = ex.iteration

\* A second model invocation is due after a response that asked for two
\* tools, one of them not bound.
C27_witness ==
    /\ ex.phase = "llm"
    /\ ex.iteration >= 1
    /\ heap[ex.agent].cls \in ToolAgentClasses
    /\ Len(ex.messages[last_response(ex.messages)].tool_calls) = 2

\* C28: between the synchronous operations of an MCPClientManager the
\* manager is disconnected, whatever the operation met: a connection that
\* did not come up, a tool call that failed, a close that raised.
C28_disconnected_after_operation ==
    \A a \in 1..Len(heap) :
        heap[a].cls = "WeatherAgent" => heap[a].connected = FALSE

\* The names routing chooses from at a request: the registry of that
\* moment.
routing_candidates == {get_agent_names[i] : i \in 1..Len(get_agent_names)}

\* C29: at every request the names routing chooses from are among the
\* agent nodes build() created, and routing never sends the request to a
\* node the graph does not have.
C29_candidates_have_nodes ==
    /\ pc = "route_request" => routing_candidates \subseteq app.nodes
    /\ pc # "no_such_node"

\* C30: the views of the registry agree: every key is the name of the
\* agent stored under it, get_agent_names() lists the names of the agents
\* of get_all_agents() in the same order, and for every name n,
\* agent_exists(n) is true exactly when get_agent(n) returns an agent (the
\* one of that name) and exactly when n is in get_agent_names().
C30_registry_views_agree ==
    /\ \A i \in 1..Len(_agents) : _agents[i].key = agent_name(_agents[i].agent)
    /\ Len(get_agent_names) = Len(get_all_agents)
    /\ \A i \in 1..Len(get_all_agents) :
          get_agent_names[i] = agent_name(get_all_agents[i])
    /\ \A n \in AgentNames \cup {"", "unknown"} :
          /\ agent_exists(n) <=> get_agent(n) # NoAgent
          /\ agent_exists(n) <=> \E i \in 1..Len(get_agent_names) : get_agent_names[i] = n
          /\ get_agent(n) # NoAgent => agent_name(get_agent(n)) = n

\* Two agents are registered after a clear() that removed an earlier one.
C30_witness ==
    /\ reset
    /\ Len(_agents) = 2
    /\ Len(heap) = 3
    /\ ~agent_exists(agent_name(1))

====
